---- MODULE Spec2Model ----
(***************************************************************************)
(* Model of the tool-using agent of nfl-rag-app: NFLStatsAgent.run, the    *)
(* structured-call extractor, tool dispatch, the read-only SQL gate and    *)
(* the fallback synthesizer.                                               *)
(*                                                                         *)
(* Text is modelled as a sequence of lexical tokens.  A token stands for   *)
(* the characters it is written with: "{" "}" "[" "]" ":" "," are the      *)
(* JSON punctuation, DQ is the double quote, WS one whitespace character,  *)
(* FENCE three backticks (written ~~~), PUNCT a non-word character that is *)
(* none of the former, and every other token is a run of word characters   *)
(* (letters, digits, underscore).  Two adjacent word tokens form one       *)
(* longer word.                                                            *)
(***************************************************************************)
EXTENDS Integers, Sequences, FiniteSets, TLC

DQ == "\""
FENCE == "~~~"
WS == " "
PUNCT == ";"

Punctuation == {"{", "}", "[", "]", ":", ",", DQ, FENCE, WS, PUNCT}

IsWordToken(t) == t \notin Punctuation

(***************************************************************************)
(* Python values that cross the model: JSON documents decoded by           *)
(* json.loads, and the data the tools return.  A value is the pair         *)
(* <<type, content>>: x[1] is its Python type, x[2] its content.           *)
(***************************************************************************)
JStr(s) == <<"str", s>>
JNum(n) == <<"num", n>>
\* a float, kept in hundredths (the calculator rounds to two places)
JFloat(h) == <<"float", h>>
JNull == <<"null", <<>>>>
JArr(elems) == <<"arr", elems>>
JObj(pairs) == <<"obj", pairs>>

\* dict.__contains__
HasKey(obj, key) == \E i \in 1..Len(obj[2]) : obj[2][i][1] = key

\* dict.get(key, default)
DictGet(obj, key, default) ==
    IF HasKey(obj, key)
    THEN obj[2][CHOOSE i \in 1..Len(obj[2]) : obj[2][i][1] = key][2]
    ELSE default

\* dict.__setitem__: a repeated key keeps its place and takes the new value
DictSet(pairs, key, val) ==
    IF \E i \in 1..Len(pairs) : pairs[i][1] = key
    THEN [i \in 1..Len(pairs) |-> IF pairs[i][1] = key THEN <<key, val>> ELSE pairs[i]]
    ELSE Append(pairs, <<key, val>>)

\* bool(x) of a decoded JSON value
Truthy(x) ==
    CASE x[1] = "null" -> FALSE
      [] x[1] \in {"num", "float"} -> x[2] # 0
      [] OTHER -> Len(x[2]) > 0

(***************************************************************************)
(* json.loads over token sequences (json.decoder / json.scanner).          *)
(***************************************************************************)
DigitTok == <<"0", "1", "2", "3", "4", "5", "6", "7", "8", "9">>
Digits == {DigitTok[i] : i \in 1..10}
DigitVal(t) == (CHOOSE i \in 1..10 : DigitTok[i] = t) - 1

\* int(digits)
RECURSIVE DigitsToInt(_, _)
DigitsToInt(d, acc) ==
    IF d = <<>> THEN acc ELSE DigitsToInt(Tail(d), 10 * acc + DigitVal(Head(d)))

\* str(n) for n >= 0
RECURSIVE IntToDigits(_)
IntToDigits(n) ==
    IF n < 10 THEN <<DigitTok[n + 1]>>
    ELSE Append(IntToDigits(n \div 10), DigitTok[(n % 10) + 1])

RECURSIVE SkipWS(_, _)
SkipWS(s, i) == IF i <= Len(s) /\ s[i] = WS THEN SkipWS(s, i + 1) ELSE i

\* str.find: first index >= i holding token t, 0 when there is none
RECURSIVE FindTok(_, _, _)
FindTok(s, t, i) ==
    IF i > Len(s) THEN 0
    ELSE IF s[i] = t THEN i ELSE FindTok(s, t, i + 1)

RECURSIVE DigitsEnd(_, _)
DigitsEnd(s, i) == IF i <= Len(s) /\ s[i] \in Digits THEN DigitsEnd(s, i + 1) ELSE i

ScanFail == [ok |-> FALSE, val |-> JNull, next |-> 0]
ScanOk(v, n) == [ok |-> TRUE, val |-> v, next |-> n]

\* py_scanstring: the string runs to the next double quote
ScanString(s, i) ==
    LET j == FindTok(s, DQ, i + 1)
    IN IF j = 0 THEN ScanFail ELSE ScanOk(JStr(SubSeq(s, i + 1, j - 1)), j + 1)

RECURSIVE ScanOnce(_, _), ScanMembers(_, _, _), ScanElems(_, _, _)

\* JSONObject: i is at the opening quote of the first key (after whitespace)
ScanMembers(s, i, acc) ==
    IF i > Len(s) \/ s[i] # DQ THEN ScanFail
    ELSE LET key == ScanString(s, i)
         IN IF ~key.ok THEN ScanFail
            ELSE LET c == SkipWS(s, key.next)
                 IN IF c > Len(s) \/ s[c] # ":" THEN ScanFail
                    ELSE LET val == ScanOnce(s, SkipWS(s, c + 1))
                         IN IF ~val.ok THEN ScanFail
                            ELSE LET e == SkipWS(s, val.next)
                                     acc2 == DictSet(acc, key.val[2], val.val)
                                 IN IF e > Len(s) THEN ScanFail
                                    ELSE IF s[e] = "}" THEN ScanOk(JObj(acc2), e + 1)
                                    ELSE IF s[e] = "," THEN ScanMembers(s, SkipWS(s, e + 1), acc2)
                                    ELSE ScanFail

\* JSONArray: i is at the first token of an element (after whitespace)
ScanElems(s, i, acc) ==
    LET val == ScanOnce(s, i)
    IN IF ~val.ok THEN ScanFail
       ELSE LET e == SkipWS(s, val.next)
                acc2 == Append(acc, val.val)
            IN IF e > Len(s) THEN ScanFail
               ELSE IF s[e] = "]" THEN ScanOk(JArr(acc2), e + 1)
               ELSE IF s[e] = "," THEN ScanElems(s, SkipWS(s, e + 1), acc2)
               ELSE ScanFail

\* scan_once: decode the value that starts at index i
ScanOnce(s, i) ==
    IF i > Len(s) THEN ScanFail
    ELSE IF s[i] = DQ THEN ScanString(s, i)
    ELSE IF s[i] = "{" THEN
        LET j == SkipWS(s, i + 1)
        IN IF j <= Len(s) /\ s[j] = "}" THEN ScanOk(JObj(<<>>), j + 1)
           ELSE ScanMembers(s, j, <<>>)
    ELSE IF s[i] = "[" THEN
        LET j == SkipWS(s, i + 1)
        IN IF j <= Len(s) /\ s[j] = "]" THEN ScanOk(JArr(<<>>), j + 1)
           ELSE ScanElems(s, j, <<>>)
    ELSE IF s[i] = "null" THEN ScanOk(JNull, i + 1)
    ELSE IF s[i] \in Digits THEN
        \* NUMBER_RE: a leading zero is a number by itself
        LET j == IF s[i] = "0" THEN i + 1 ELSE DigitsEnd(s, i)
        IN ScanOk(JNum(DigitsToInt(SubSeq(s, i, j - 1), 0)), j)
    ELSE ScanFail

\* json.loads: one value, surrounded by whitespace only; ok = FALSE is JSONDecodeError
json_loads(s) ==
    LET r == ScanOnce(s, SkipWS(s, 1))
    IN IF r.ok /\ SkipWS(s, r.next) = Len(s) + 1
       THEN [ok |-> TRUE, val |-> r.val]
       ELSE [ok |-> FALSE, val |-> JNull]

SignedDigits(n) == IF n < 0 THEN <<"-">> \o IntToDigits(0 - n) ELSE IntToDigits(n)

(***************************************************************************)
(* json.dumps: the text of a decoded value, written compactly.             *)
(***************************************************************************)
RECURSIVE json_dumps(_), DumpPairs(_, _), DumpElems(_, _)
DumpPairs(pairs, i) ==
    IF i > Len(pairs) THEN <<>>
    ELSE (IF i > 1 THEN <<",", WS>> ELSE <<>>)
         \o <<DQ>> \o pairs[i][1] \o <<DQ, ":", WS>> \o json_dumps(pairs[i][2])
         \o DumpPairs(pairs, i + 1)
DumpElems(elems, i) ==
    IF i > Len(elems) THEN <<>>
    ELSE (IF i > 1 THEN <<",", WS>> ELSE <<>>) \o json_dumps(elems[i]) \o DumpElems(elems, i + 1)
json_dumps(x) ==
    CASE x[1] = "str" -> <<DQ>> \o x[2] \o <<DQ>>
      [] x[1] = "num" -> SignedDigits(x[2])
      [] x[1] = "float" -> SignedDigits(x[2]) \o <<"e-2">>
      [] x[1] = "null" -> <<"null">>
      [] x[1] = "arr" -> <<"[">> \o DumpElems(x[2], 1) \o <<"]">>
      [] x[1] = "obj" -> <<"{">> \o DumpPairs(x[2], 1) \o <<"}">>

(***************************************************************************)
(* NFLStatsAgent._parse_tool_call                                          *)
(***************************************************************************)
PyNone == [kind |-> "None", val |-> JNull, exc |-> ""]
Returned(v) == [kind |-> "value", val |-> v, exc |-> ""]
Raised(e) == [kind |-> "raise", val |-> JNull, exc |-> e]

\* index of the first FENCE immediately followed by the word json, 0 if none
RECURSIVE FindFenceJson(_, _)
FindFenceJson(s, i) ==
    IF i + 1 > Len(s) THEN 0
    ELSE IF s[i] = FENCE /\ s[i + 1] = "json" THEN i ELSE FindFenceJson(s, i + 1)

RECURSIVE LastNonWS(_, _, _)
LastNonWS(s, lo, hi) ==
    IF hi < lo THEN hi
    ELSE IF s[hi] = WS THEN LastNonWS(s, lo, hi - 1) ELSE hi

\* the pattern with an optional closing fence: an unclosed block matches to the end
FencedSearchUnclosed(response) ==
    LET open == FindFenceJson(response, 1)
        a == IF open = 0 THEN 0 ELSE SkipWS(response, open + 2)
        close == IF open = 0 THEN 0 ELSE FindTok(response, FENCE, a)
        last == IF close = 0 THEN Len(response) ELSE close - 1
    IN IF open = 0
       THEN [matched |-> FALSE, group |-> <<>>]
       ELSE [matched |-> TRUE, group |-> SubSeq(response, a, LastNonWS(response, a, last))]

\* re.search(r'```json\s*(.*?)\s*```', response, re.DOTALL): group(1), when it matches
FencedSearch(response) ==
    LET open == FindFenceJson(response, 1)
        a == IF open = 0 THEN 0 ELSE SkipWS(response, open + 2)
        close == IF open = 0 THEN 0 ELSE FindTok(response, FENCE, a)
    IN IF open = 0 \/ close = 0
       THEN [matched |-> FALSE, group |-> <<>>]
       ELSE [matched |-> TRUE,
             group |-> SubSeq(response, a, LastNonWS(response, a, close - 1))]

\* the loop without the depth count: it stops at the first closing brace
RECURSIVE MatchBraceFirstClose(_, _, _, _)
MatchBraceFirstClose(s, start, i, depth) ==
    IF i > Len(s) THEN start
    ELSE IF s[i] = "}" THEN i + 1
    ELSE MatchBraceFirstClose(s, start, i + 1, depth)

\* the brace-depth loop: index one past the brace that closes the one at start,
\* or start when the depth never returns to zero
RECURSIVE MatchBrace(_, _, _, _)
MatchBrace(s, start, i, depth) ==
    IF i > Len(s) THEN start
    ELSE IF s[i] = "{" THEN MatchBrace(s, start, i + 1, depth + 1)
    ELSE IF s[i] = "}" THEN
        (IF depth - 1 = 0 THEN i + 1 ELSE MatchBrace(s, start, i + 1, depth - 1))
    ELSE MatchBrace(s, start, i + 1, depth)

\* strategy 2 without the "tool" in parsed test
ParseRawObjectAnyKeys(response) ==
    LET start == FindTok(response, "{", 1)
        end == MatchBrace(response, start, start, 0)
    IN IF start = 0 THEN PyNone
       ELSE IF end > start
       THEN LET parsed == json_loads(SubSeq(response, start, end - 1))
            IN IF parsed.ok THEN Returned(parsed.val) ELSE PyNone
       ELSE PyNone

\* Strategy 2: the raw JSON object at the first brace
ParseRawObject(response) ==
    LET start == FindTok(response, "{", 1)
        end == MatchBrace(response, start, start, 0)
    IN IF start = 0 THEN PyNone
       ELSE IF end > start
       THEN LET parsed == json_loads(SubSeq(response, start, end - 1))
            IN IF parsed.ok /\ HasKey(parsed.val, <<"tool">>)
               THEN Returned(parsed.val)
               ELSE PyNone
       ELSE PyNone

\* Strategy 1, then strategy 2.  parsed.get on a value that is no dict raises
\* AttributeError, which the except clause (JSONDecodeError) does not catch.
_parse_tool_call(response) ==
    LET m == FencedSearch(response)
        parsed == json_loads(m.group)
    IN IF m.matched /\ parsed.ok
       THEN IF parsed.val[1] = "obj" THEN Returned(parsed.val) ELSE Raised("AttributeError")
       ELSE ParseRawObject(response)

(***************************************************************************)
(* Text helpers                                                            *)
(***************************************************************************)
\* str(x) as used by f-strings and str(e)
Str(x) ==
    CASE x[1] = "str" -> x[2]
      [] x[1] = "null" -> <<"None">>
      [] OTHER -> json_dumps(x)

\* str.lower / str.upper on the words the model uses in more than one case
Lower(t) ==
    CASE t = "DROP" -> "drop"
      [] t = "Update" -> "update"
      [] t = "DESC" -> "desc"
      [] t = "ASC" -> "asc"
      [] t = "Asc" -> "asc"
      [] OTHER -> t
Upper(t) ==
    CASE t = "drop" -> "DROP"
      [] t = "desc" -> "DESC"
      [] t = "asc" -> "ASC"
      [] t = "reg" -> "REG"
      [] t = "qb" -> "QB"
      [] OTHER -> t

(***************************************************************************)
(* NFLDatabase: the read-only gate and execute_safe                        *)
(***************************************************************************)
WriteWords == {"insert", "update", "delete", "drop", "create", "alter",
               "truncate", "replace", "merge"}

\* the pattern without its \b anchors: a write word anywhere in a longer word
_is_write_query_unanchored(sql) ==
    \E i \in 1..Len(sql) : Lower(sql[i]) \in WriteWords

\* WRITE_PATTERNS.search(sql): \b(INSERT|...|MERGE)\b with re.IGNORECASE
_is_write_query(sql) ==
    \E i \in 1..Len(sql) :
        /\ Lower(sql[i]) \in WriteWords
        /\ (i = 1 \/ ~IsWordToken(sql[i - 1]))
        /\ (i = Len(sql) \/ ~IsWordToken(sql[i + 1]))

\* What the backend does with one statement: a duckdb.Error, or result rows
BackendRaises(backend) == backend.raises

\* execute_safe(sql, params): [exc, rows, db]; db lists what reached the
\* connection layer: _get_connection, then conn.execute
execute_safe(sql, backend) ==
    IF _is_write_query(sql)
    THEN [exc |-> "PermissionError", rows |-> <<>>, db |-> <<>>]
    ELSE IF BackendRaises(backend)
    THEN [exc |-> "duckdb.Error", rows |-> <<>>,
          db |-> << <<"_get_connection">>, <<"execute", sql>> >>]
    ELSE [exc |-> "", rows |-> backend.rows,
          db |-> << <<"_get_connection">>, <<"execute", sql>> >>]

(***************************************************************************)
(* ToolResult and the tools (src/agent/tools.py)                           *)
(***************************************************************************)
ToolResult(success, data, error) == [success |-> success, data |-> data, error |-> error]
\* a failure that keeps a data value
FailureWithData(text) == ToolResult(FALSE, JArr(<<>>), JStr(text))

Failure(text) == ToolResult(FALSE, JNull, JStr(text))
Success(data) == ToolResult(TRUE, data, JNull)

\* what a tool call yields: its ToolResult and what it sent to the database
Out(result, db) == [result |-> result, db |-> db]

max_rows == 15

\* ToolResult.to_string
to_string(r) ==
    IF ~r.success THEN <<"Error: ">> \o Str(r.error)
    ELSE IF r.data[1] = "arr" THEN
        IF Len(r.data[2]) = 0 THEN <<"No results found.">>
        ELSE IF Len(r.data[2]) <= max_rows THEN json_dumps(r.data)
        ELSE json_dumps(JArr(SubSeq(r.data[2], 1, max_rows)))
             \o <<"... and ">> \o IntToDigits(Len(r.data[2]) - max_rows) \o <<" more rows">>
    ELSE IF r.data[1] = "obj" THEN json_dumps(r.data)
    ELSE Str(r.data)

PermissionText == <<"Write operations (INSERT, UPDATE, DELETE, DROP, etc.) are not allowed. This database is read-only for safety.">>

\* str(e) of what execute_safe raises
ExcText(exc) == IF exc = "PermissionError" THEN PermissionText ELSE <<exc>>

\* SQLQueryTool.execute(sql); WRITE_PATTERNS.search raises TypeError on a
\* value that is no string, which the general except clause reports
SQLQueryTool_execute(sql, backend) ==
    IF sql[1] # "str" THEN Out(Failure(<<"Query failed: ", "TypeError">>), <<>>)
    ELSE LET q == execute_safe(sql[2], backend)
         IN IF q.exc = "PermissionError" THEN Out(Failure(PermissionText), q.db)
            ELSE IF q.exc # "" THEN Out(Failure(<<"Query failed: ", q.exc>>), q.db)
            ELSE Out(Success(JArr(q.rows)), q.db)

\* s[:n]
Take(s, n) == SubSeq(s, 1, IF n < Len(s) THEN n ELSE Len(s))

IsStr(x) == x[1] = "str"
IsNum(x) == x[1] = "num"
IsNumList(x) == x[1] = "arr" /\ \A i \in 1..Len(x[2]) : IsNum(x[2][i])

RECURSIVE SumNums(_)
SumNums(xs) == IF xs = <<>> THEN 0 ELSE Head(xs)[2] + SumNums(Tail(xs))

\* SQL SUM(col) over rows: NULL when no row has a value
SqlSum(rows, col) ==
    LET vals == SelectSeq([i \in 1..Len(rows) |-> DictGet(rows[i], col, JNull)], IsNum)
    IN IF vals = <<>> THEN JNull ELSE JNum(SumNums(vals))

\* PlayerStatsLookupTool.execute: .upper() on a filter that is set and is no
\* string raises; games_sql and summary_sql are fixed text with bound
\* parameters; backend.rows are the matching player_games rows (at most 30
\* are returned as recent_games)
GamesSql == <<"SELECT", WS, "season", WS, "FROM", WS, "player_games", WS, "LIMIT", WS, "30">>
SummarySql == <<"SELECT", WS, "COUNT", WS, "FROM", WS, "player_games">>
PlayerStatsLookupTool_execute(player_name, opponent, season, season_type, backend) ==
    IF (Truthy(opponent) /\ ~IsStr(opponent)) \/ (Truthy(season_type) /\ ~IsStr(season_type))
    THEN Out(Failure(<<"AttributeError">>), <<>>)
    ELSE LET games == execute_safe(GamesSql, [backend EXCEPT !.raises = backend.raises /\ ~backend.alt])
             summary == execute_safe(SummarySql, backend)
         IN IF games.exc # "" THEN Out(Failure(ExcText(games.exc)), games.db)
            ELSE IF summary.exc # "" THEN Out(Failure(ExcText(summary.exc)), games.db \o summary.db)
            ELSE Out(Success(JObj(<<
                    << <<"summary">>, JObj(<<
                        << <<"games_played">>, JNum(Len(backend.rows)) >>,
                        << <<"total_", "passing_yards">>, SqlSum(backend.rows, <<"passing_yards">>) >>,
                        << <<"total_", "passing_tds">>, SqlSum(backend.rows, <<"passing_tds">>) >> >>) >>,
                    << <<"recent_games">>, JArr(Take(backend.rows, 30)) >>,
                    << <<"total_games_found">>, JNum(Len(Take(backend.rows, 30))) >> >>)),
                 games.db \o summary.db)

\* round(a / b, 2) in hundredths, for b > 0
RoundDiv(a, b) == (2 * a + b) \div (2 * b)

\* int and float values on one scale: hundredths
IsNumber(x) == x[1] \in {"num", "float"}
Hundredths(x) == IF x[1] = "num" THEN 100 * x[2] ELSE x[2]

\* a / b rounded to the nearest whole, for b # 0
Ratio(a, b) == IF b > 0 THEN RoundDiv(a, b) ELSE RoundDiv(0 - a, 0 - b)

\* a test that only the int 0 passes
IsZeroIntOnly(x) == IsNum(x) /\ x[2] = 0

\* x == 0 for a divisor or an old value: true of 0 and of 0.0
IsZero(x) == IsNumber(x) /\ x[2] = 0

CalcData(result, operation) ==
    Success(JObj(<< << <<"result">>, result >>, << <<"operation">>, operation >> >>))

\* min(values) / max(values) of a list of numbers
MinNum(xs) == CHOOSE m \in {xs[i][2] : i \in 1..Len(xs)} : \A i \in 1..Len(xs) : m <= xs[i][2]
MaxNum(xs) == CHOOSE m \in {xs[i][2] : i \in 1..Len(xs)} : \A i \in 1..Len(xs) : m >= xs[i][2]

\* CalculatorTool.execute.  Every exception is caught and reported, the
\* ZeroDivisionError of the / operator included.  Where
\* the outcome depends on Python details outside the model (eval, min/max
\* of non-numbers) backend.alt chooses between success and failure.
CalculatorTool_execute(operation, values, backend) ==
    LET op == IF IsStr(operation) /\ Len(operation[2]) = 1 THEN operation[2][1] ELSE ""
    IN CASE op = "average" ->
            IF ~Truthy(values) THEN Failure(<<"No values provided">>)
            ELSE IF IsNumList(values)
            THEN CalcData(JFloat(RoundDiv(100 * SumNums(values[2]), Len(values[2]))), operation)
            ELSE Failure(<<"TypeError">>)
         [] op = "sum" ->
            IF IsNumList(values) THEN CalcData(JNum(SumNums(values[2])), operation)
            ELSE IF values[1] = "arr" /\ \A i \in 1..Len(values[2]) : IsNumber(values[2][i])
            THEN CalcData(JFloat(SumNums([i \in 1..Len(values[2]) |->
                                            JFloat(Hundredths(values[2][i]))])), operation)
            ELSE IF values[1] \in {"obj", "str"} /\ Len(values[2]) = 0 THEN CalcData(JNum(0), operation)
            ELSE Failure(<<"TypeError">>)
         [] op \in {"min", "max"} ->
            IF values[1] \in {"null", "num", "float"} THEN Failure(<<"TypeError">>)
            ELSE IF Len(values[2]) = 0 THEN Failure(<<"ValueError">>)
            ELSE IF IsNumList(values)
            THEN CalcData(JNum(IF op = "min" THEN MinNum(values[2]) ELSE MaxNum(values[2])), operation)
            ELSE IF backend.alt THEN CalcData(JStr(<<"x">>), operation)
            ELSE Failure(<<"TypeError">>)
         [] op = "win_percentage" ->
            IF values[1] # "obj" THEN Failure(<<"AttributeError">>)
            ELSE LET wins == DictGet(values, <<"wins">>, JNum(0))
                     losses == DictGet(values, <<"losses">>, JNum(0))
                 IN IF ~(IsNum(wins) /\ IsNum(losses)) THEN Failure(<<"TypeError">>)
                    ELSE IF wins[2] + losses[2] > 0
                    THEN CalcData(JFloat(10 * RoundDiv(1000 * wins[2], wins[2] + losses[2])), operation)
                    ELSE CalcData(JNum(0), operation)
         [] op = "percent_change" ->
            IF values[1] # "obj" THEN Failure(<<"AttributeError">>)
            ELSE LET old == DictGet(values, <<"old">>, JNum(0))
                     new == DictGet(values, <<"new">>, JNum(0))
                 IN IF IsZero(old)
                    THEN Failure(<<"Cannot calculate percent change from 0">>)
                    ELSE IF ~(IsNumber(old) /\ IsNumber(new)) THEN Failure(<<"TypeError">>)
                    ELSE IF Hundredths(old) = 0 THEN Failure(<<"division by zero">>)
                    ELSE CalcData(JFloat(10 * Ratio(1000 * (Hundredths(new) - Hundredths(old)),
                                                    Hundredths(old))), operation)
         [] op = "divide" ->
            IF values[1] \in {"null", "num", "float"} THEN Failure(<<"TypeError">>)
            ELSE IF Len(values[2]) # 2 THEN Failure(<<"Divide requires exactly 2 values">>)
            ELSE IF values[1] # "arr" THEN Failure(<<"TypeError">>)
            ELSE IF IsZero(values[2][2]) THEN Failure(<<"Cannot divide by zero">>)
            ELSE IF ~(IsNumber(values[2][1]) /\ IsNumber(values[2][2])) THEN Failure(<<"TypeError">>)
            ELSE IF Hundredths(values[2][2]) = 0 THEN Failure(<<"division by zero">>)
            ELSE CalcData(JFloat(Ratio(100 * Hundredths(values[2][1]), Hundredths(values[2][2]))),
                          operation)
         [] op = "expression" ->
            IF backend.alt THEN CalcData(JNum(1), operation) ELSE Failure(<<"SyntaxError">>)
         [] OTHER -> Failure(<<"Unknown operation: ">> \o Str(operation))

\* SemanticSearchTool.execute: backend.rows are the formatted retrieval hits
SemanticSearchTool_execute(query, num_results, backend) ==
    IF backend.raises THEN Failure(<<"RetrievalError">>)
    ELSE Success(JArr(backend.rows))

\* NewsSearchTool.execute: backend.rows is what storage.search returns
NewsSearchTool_execute(query, source, team, num_results, backend) ==
    IF backend.raises THEN Failure(<<"StorageError">>)
    ELSE IF backend.rows = <<>>
    THEN Success(JObj(<< << <<"message">>, JStr(<<"No news found. Try fetching news first with: python -m src.news.storage --fetch">>) >> >>))
    ELSE Success(JArr(backend.rows))

valid_stats == {"passing_yards", "passing_tds", "passing_interceptions",
                "rushing_yards", "rushing_tds", "carries",
                "receiving_yards", "receiving_tds", "receptions", "targets",
                "fantasy_points", "fantasy_points_ppr",
                "fg_made", "fg_att", "fg_long"}

\* sorted(valid_stats), and ', '.join of it
SortedValidStats ==
    <<"carries", "fantasy_points", "fantasy_points_ppr", "fg_att", "fg_long", "fg_made",
      "passing_interceptions", "passing_tds", "passing_yards", "receiving_tds",
      "receiving_yards", "receptions", "rushing_tds", "rushing_yards", "targets">>

RECURSIVE CommaJoin(_)
CommaJoin(names) ==
    IF Len(names) <= 1 THEN names
    ELSE <<Head(names), ", ">> \o CommaJoin(Tail(names))

\* the statement RankingsTool builds: stat, min_games and order are written
\* into the text; season, season_type, position and limit are parameters
RankingsSql(stat, min_games, order, hasPosition) ==
    <<"SELECT", WS, "player_display_name", WS, "as", WS, "player", ",", WS,
      "position", ",", WS, "team", ",", WS, "SUM", PUNCT>>
    \o stat \o <<PUNCT, WS, "as", WS, "total_">> \o stat
    \o <<",", WS, "COUNT", PUNCT, WS, "as", WS, "games", WS, "FROM", WS, "player_games", WS,
         "WHERE", WS, "season", WS, PUNCT, WS, "AND", WS, "season_type", WS, PUNCT>>
    \o (IF hasPosition THEN <<WS, "AND", WS, "position", WS, PUNCT>> ELSE <<>>)
    \o <<WS, "GROUP", WS, "BY", WS, "player_display_name", ",", WS, "position", ",", WS, "team",
         WS, "HAVING", WS, "COUNT", PUNCT, WS, PUNCT, WS>> \o min_games
    \o <<WS, "AND", WS, "SUM", PUNCT>> \o stat \o <<PUNCT, WS, PUNCT, WS, "0", WS,
         "ORDER", WS, "BY", WS, "total_">> \o stat \o <<WS, Upper(order), WS, "LIMIT", WS, PUNCT>>

(* What the statement returns from a player_games table.  table is the     *)
(* sequence of game rows; scan is the order in which the engine meets them *)
(* (a permutation of the row numbers), which decides the order of groups   *)
(* that ORDER BY leaves equal.                                             *)
\* WHERE season = ? AND season_type = ? [AND position = ?]
Matching(table, scan, season, season_type, position) ==
    LET keep(i) == /\ table[i].season = season[2]
                   /\ <<table[i].season_type>> = season_type
                   /\ position = <<>> \/ <<table[i].position>> = position
    IN [n \in 1..Len(SelectSeq(scan, keep)) |-> table[SelectSeq(scan, keep)[n]]]

\* GROUP BY player_display_name, position, team
GroupKey(row) == <<row.player, row.position, row.team>>

RECURSIVE GroupKeys(_, _)
GroupKeys(rows, seen) ==
    IF rows = <<>> THEN seen
    ELSE GroupKeys(Tail(rows),
                   IF \E n \in 1..Len(seen) : seen[n] = GroupKey(Head(rows))
                   THEN seen ELSE Append(seen, GroupKey(Head(rows))))

RECURSIVE SumCol(_, _)
SumCol(rows, col) == IF rows = <<>> THEN 0 ELSE Head(rows)[col] + SumCol(Tail(rows), col)

\* one group: SUM(stat) as total, COUNT(*) as games
Group(rows, key, stat) ==
    LET members == SelectSeq(rows, LAMBDA r : GroupKey(r) = key)
    IN [player |-> key[1], position |-> key[2], team |-> key[3],
        total |-> SumCol(members, stat), games |-> Len(members)]

\* ORDER BY total ASC / DESC: equal totals stay in the order they came
RECURSIVE OrderBy(_, _)
OrderBy(groups, order) ==
    IF groups = <<>> THEN <<>>
    ELSE LET g == groups[Len(groups)]
             before(h) == IF order = "desc" THEN h.total >= g.total ELSE h.total <= g.total
             rest == OrderBy(SubSeq(groups, 1, Len(groups) - 1), order)
         IN SelectSeq(rest, before) \o <<g>> \o SelectSeq(rest, LAMBDA h : ~before(h))

\* a HAVING clause that only counts the games
HavingGamesOnly(g, min_games) ==
    g.games >= min_games[2]

\* HAVING COUNT(*) >= {min_games} AND SUM({stat}) > 0, the same for both orders
Having(g, min_games) ==
    g.games >= min_games[2] /\ g.total > 0

\* the rows of the result: HAVING, ORDER BY, LIMIT, and the output columns
RankingsRows(table, scan, stat, season, season_type, position, min_games, order, limit) ==
    LET rows == Matching(table, scan, season, season_type, position)
        keys == GroupKeys(rows, <<>>)
        groups == [n \in 1..Len(keys) |-> Group(rows, keys[n], stat)]
        having == SelectSeq(groups, LAMBDA g : Having(g, min_games))
        top == Take(OrderBy(having, order), limit[2])
    IN [n \in 1..Len(top) |->
          JObj(<< <<<<"player">>, JStr(<<top[n].player>>)>>,
                  <<<<"position">>, JStr(<<top[n].position>>)>>,
                  <<<<"team">>, JStr(<<top[n].team>>)>>,
                  <<<<"total_", stat>>, JNum(top[n].total)>>,
                  <<<<"games">>, JNum(top[n].games)>> >>)]

\* the "rank" / "worst_rank" numbering loop
AddRanks(rows, rank_label) ==
    [i \in 1..Len(rows) |-> JObj(DictSet(rows[i][2], <<rank_label>>, JNum(i)))]

\* the rejection without the valid options
InvalidStatErrorBare(stat) ==
    <<"Invalid stat: ">> \o Str(stat)

\* f"Invalid stat: {stat}. Valid options: {', '.join(sorted(valid_stats))}"
InvalidStatError(stat) ==
    <<"Invalid stat: ">> \o Str(stat) \o <<". Valid options: ">> \o CommaJoin(SortedValidStats)

\* RankingsTool.execute: backend.rows is what the statement returns
RankingsTool_execute(stat, season, position, limit, season_type, order, min_games, backend) ==
    IF stat[1] \in {"arr", "obj"} THEN Out(Failure(<<"TypeError">>), <<>>)
    ELSE IF ~(IsStr(stat) /\ Len(stat[2]) = 1 /\ stat[2][1] \in valid_stats)
    THEN Out(Failure(InvalidStatError(stat)), <<>>)
    ELSE IF ~IsStr(order) \/ ~IsStr(season_type) \/ (Truthy(position) /\ ~IsStr(position))
    THEN Out(Failure(<<"AttributeError">>), <<>>)
    ELSE LET ord == IF Len(order[2]) = 1 /\ Lower(order[2][1]) \in {"asc", "desc"}
                    THEN Lower(order[2][1]) ELSE "desc"
             up(x) == IF Len(x[2]) = 1 THEN <<Upper(x[2][1])>> ELSE x[2]
             answer == IF "table" \in DOMAIN backend
                       THEN [backend EXCEPT !.rows =
                               RankingsRows(backend.table, backend.scan, stat[2][1], season,
                                            up(season_type),
                                            IF Truthy(position) THEN up(position) ELSE <<>>,
                                            min_games, ord, limit)]
                       ELSE backend
             q == execute_safe(RankingsSql(stat[2], Str(min_games), ord, Truthy(position)), answer)
         IN IF q.exc # "" THEN Out(Failure(ExcText(q.exc)), q.db)
            ELSE Out(Success(JArr(AddRanks(q.rows, IF ord = "desc" THEN "rank" ELSE "worst_rank"))), q.db)

(***************************************************************************)
(* NFLStatsAgent._execute_tool                                             *)
(***************************************************************************)
ToolNames == <<"sql_query", "player_stats", "calculator", "semantic_search", "rankings", "news_search">>
Registered(tool_name) ==
    IsStr(tool_name) /\ Len(tool_name[2]) = 1 /\ \E i \in 1..Len(ToolNames) : ToolNames[i] = tool_name[2][1]

\* Python's a or b
PyOr(a, b) == IF Truthy(a) THEN a ELSE b

\* the error without the list of tools
UnknownToolErrorBare(tool_name) ==
    <<"Unknown tool: ">> \o Str(tool_name)

UnknownToolError(tool_name) ==
    <<"Unknown tool: ">> \o Str(tool_name) \o <<". Available: ">> \o ToolNames

\* the if/elif chain inside the try block; arguments is a dict here
RouteTool(name, arguments, backend) ==
    CASE name = "sql_query" ->
            SQLQueryTool_execute(
                PyOr(DictGet(arguments, <<"sql">>, JNull),
                     PyOr(DictGet(arguments, <<"query">>, JNull), JStr(<<>>))),
                backend)
      [] name = "player_stats" ->
            PlayerStatsLookupTool_execute(
                DictGet(arguments, <<"player_name">>, JStr(<<>>)),
                DictGet(arguments, <<"opponent">>, JNull),
                DictGet(arguments, <<"season">>, JNull),
                DictGet(arguments, <<"season_type">>, JNull),
                backend)
      [] name = "calculator" ->
            Out(CalculatorTool_execute(
                    DictGet(arguments, <<"operation">>, JStr(<<>>)),
                    DictGet(arguments, <<"values">>, JNull),
                    backend),
                <<>>)
      [] name = "semantic_search" ->
            Out(SemanticSearchTool_execute(
                    DictGet(arguments, <<"query">>, JStr(<<>>)),
                    DictGet(arguments, <<"num_results">>, JNum(5)),
                    backend),
                <<>>)
      [] name = "rankings" ->
            RankingsTool_execute(
                DictGet(arguments, <<"stat">>, JStr(<<>>)),
                DictGet(arguments, <<"season">>, JNum(2024)),
                DictGet(arguments, <<"position">>, JNull),
                DictGet(arguments, <<"limit">>, JNum(10)),
                DictGet(arguments, <<"season_type">>, JStr(<<"REG">>)),
                DictGet(arguments, <<"order">>, JStr(<<"desc">>)),
                DictGet(arguments, <<"min_games">>, JNum(1)),
                backend)
      [] name = "news_search" ->
            Out(NewsSearchTool_execute(
                    DictGet(arguments, <<"query">>, JStr(<<>>)),
                    DictGet(arguments, <<"source">>, JNull),
                    DictGet(arguments, <<"team">>, JNull),
                    DictGet(arguments, <<"num_results">>, JNum(5)),
                    backend),
                <<>>)

\* "tool_name not in self.tools" hashes tool_name before the try block: a
\* list or dict there raises TypeError out of _execute_tool.  Inside the
\* try block arguments.get on a value that is no dict raises
\* AttributeError, which is caught.
_execute_tool(tool_call, backend) ==
    LET tool_name == DictGet(tool_call, <<"tool">>, JNull)
        arguments == DictGet(tool_call, <<"arguments">>, JObj(<<>>))
    IN IF tool_name[1] \in {"arr", "obj"} THEN Raised("TypeError")
       ELSE IF ~Registered(tool_name)
       THEN Returned(Out(Failure(UnknownToolError(tool_name)), <<>>))
       ELSE IF arguments[1] # "obj"
       THEN Returned(Out(Failure(<<"AttributeError">>), <<>>))
       ELSE Returned(RouteTool(tool_name[2][1], arguments, backend))

(***************************************************************************)
(* NFLStatsAgent._build_fallback_answer                                    *)
(***************************************************************************)
NoDataAnswer == <<"I couldn't find relevant data to answer this question.">>
NoClearAnswer == <<"I found some data but couldn't determine a clear answer. Try rephrasing your question or being more specific.">>

\* f"{value:,}"
RECURSIVE Commas(_)
Commas(d) ==
    IF Len(d) <= 3 THEN d
    ELSE Commas(SubSeq(d, 1, Len(d) - 3)) \o <<",">> \o SubSeq(d, Len(d) - 2, Len(d))
FormatCommas(x) ==
    IF x[1] = "float"
    THEN Commas(IntToDigits(x[2] \div 100)) \o <<".">> \o IntToDigits(x[2] % 100)
    ELSE Commas(IntToDigits(x[2]))

\* key.replace("total_", "").replace("_", " ")
Humanize(t) ==
    CASE t = "passing_yards" -> "passing yards"
      [] t = "passing_tds" -> "passing tds"
      [] t = "rushing_yards" -> "rushing yards"
      [] OTHER -> t
StatName(key) ==
    LET rest == SelectSeq(key, LAMBDA t : t # "total_")
    IN [i \in 1..Len(rest) |-> Humanize(rest[i])]

IsNumeric(x) == x[1] \in {"num", "float"}
IsTotalField(pair) == Len(pair[1]) > 0 /\ pair[1][1] = "total_" /\ IsNumeric(pair[2])

\* the rankings branch: no sentence (kind "None") when no total_ field is numeric
RankingsSentence(first) ==
    IF first[1] # "obj" THEN Raised("AttributeError")
    ELSE LET totals == SelectSeq(first[2], IsTotalField)
             games == DictGet(first, <<"games">>, JStr(<<>>))
         IN IF totals = <<>> THEN PyNone
            ELSE Returned(JStr(
                    <<"Based on the data, ">> \o Str(DictGet(first, <<"player">>, JStr(<<"Unknown">>)))
                    \o <<" led with ">> \o FormatCommas(totals[1][2]) \o <<" ">> \o StatName(totals[1][1])
                    \o (IF Truthy(games) THEN <<" in ">> \o Str(games) \o <<" games">> ELSE <<>>)
                    \o <<".">>))

\* the player_stats branch: "pass_yds > 0" raises TypeError when the total
\* is None (SUM over no rows) or any other value that is no number
PlayerStatsSentence(result) ==
    LET summary == DictGet(result, <<"summary">>, JObj(<<>>))
    IN IF ~Truthy(summary) THEN PyNone
       ELSE IF summary[1] # "obj" THEN Raised("AttributeError")
       ELSE LET pass_yds == DictGet(summary, <<"total_", "passing_yards">>, JNum(0))
                pass_tds == DictGet(summary, <<"total_", "passing_tds">>, JNum(0))
            IN IF ~IsNumeric(pass_yds) THEN Raised("TypeError")
               ELSE IF pass_yds[2] > 0
               THEN Returned(JStr(
                        Str(DictGet(summary, <<"player">>, JStr(<<"The player">>)))
                        \o <<" had ">> \o FormatCommas(pass_yds) \o <<" passing yards and ">>
                        \o Str(pass_tds) \o <<" touchdowns in ">>
                        \o Str(DictGet(summary, <<"games_played">>, JNum(0))) \o <<" games.">>))
               ELSE PyNone

RECURSIVE JoinParts(_, _)
JoinParts(pairs, i) ==
    IF i > Len(pairs) THEN <<>>
    ELSE (IF i > 1 THEN <<", ">> ELSE <<>>) \o pairs[i][1] \o <<": ">> \o Str(pairs[i][2])
         \o JoinParts(pairs, i + 1)

\* the sql_query branch: the first five fields of the first row that are not None
SqlSentence(first) ==
    IF first[1] # "obj" THEN Raised("AttributeError")
    ELSE LET parts == SelectSeq(first[2], LAMBDA pair : pair[2][1] # "null")
         IN IF parts = <<>> THEN PyNone
            ELSE Returned(JStr(<<"Based on the data: ">> \o JoinParts(Take(parts, 5), 1)))

\* tool == "<name>"
IsTool(tc, name) == tc.tool[1] = "str" /\ tc.tool[2] = <<name>>

\* one pass of the for loop body for record tc: a sentence, nothing, or an exception
FallbackFor(tc) ==
    IF ~tc.success \/ ~Truthy(tc.result) THEN PyNone
    ELSE LET isList == tc.result[1] = "arr" /\ Len(tc.result[2]) > 0
             r1 == IF IsTool(tc, "rankings") /\ isList
                   THEN RankingsSentence(tc.result[2][1]) ELSE PyNone
             r2 == IF IsTool(tc, "player_stats") /\ tc.result[1] = "obj"
                   THEN PlayerStatsSentence(tc.result) ELSE PyNone
             r3 == IF IsTool(tc, "sql_query") /\ isList
                   THEN SqlSentence(tc.result[2][1]) ELSE PyNone
         IN IF r1.kind # "None" THEN r1
            ELSE IF r2.kind # "None" THEN r2
            ELSE r3

RECURSIVE FallbackScan(_, _)
FallbackScan(tool_calls, i) ==
    IF i > Len(tool_calls) THEN Returned(JStr(NoClearAnswer))
    ELSE LET r == FallbackFor(tool_calls[i])
         IN IF r.kind # "None" THEN r ELSE FallbackScan(tool_calls, i + 1)

_build_fallback_answer(tool_calls) ==
    IF tool_calls = <<>> THEN Returned(JStr(NoDataAnswer))
    ELSE FallbackScan(tool_calls, 1)

(***************************************************************************)
(* NFLStatsAgent.run                                                       *)
(***************************************************************************)
MAX_ITERATIONS == 4

system_prompt == <<"<system prompt>">>

Message(role, content) == [role |-> role, content |-> content]

AgentResponse(answer, tcs, th, iterations) ==
    [answer |-> answer, tool_calls |-> tcs, thinking |-> th, iterations |-> iterations]

\* the error return counting the iterations completed, not the one that failed
ErrorResponseCompleted(e, tcs, th, it) ==
    AgentResponse(<<"Error communicating with LLM: ", e>>, tcs, th, it)

\* the return inside "except Exception" around self.llm.chat
ErrorResponse(e, tcs, th, it) ==
    AgentResponse(<<"Error communicating with LLM: ", e>>, tcs, th, it + 1)

\* the final return counting the tool calls made, not the model calls
FinalResponseToolCount(text, tcs, th, it) ==
    AgentResponse(text, tcs, Append(th, "Generated final answer"), Len(tcs))

\* the final return counting the iterations completed, not the current one
FinalResponseCompleted(text, tcs, th, it) ==
    AgentResponse(text, tcs, Append(th, "Generated final answer"), it)

\* the return of the else branch: no tool call found
FinalResponse(text, tcs, th, it) ==
    AgentResponse(text, tcs, Append(th, "Generated final answer"), it + 1)

\* the return after the loop
MaxIterationsResponse(final_answer, tcs, th) ==
    AgentResponse(final_answer, tcs, th, MAX_ITERATIONS)

\* the record without the error text of a failed call
ToolCallRecordNoError(call, r) ==
    [tool |-> DictGet(call, <<"tool">>, JNull),
     arguments |-> DictGet(call, <<"arguments">>, JObj(<<>>)),
     result |-> IF r.success THEN r.data ELSE JNull,
     error |-> JNull,
     success |-> r.success]

\* the dict appended to tool_calls
ToolCallRecord(call, r) ==
    [tool |-> DictGet(call, <<"tool">>, JNull),
     arguments |-> DictGet(call, <<"arguments">>, JObj(<<>>)),
     result |-> IF r.success THEN r.data ELSE JNull,
     error |-> IF ~r.success THEN r.error ELSE JNull,
     success |-> r.success]

ThinkingLine(call, r) ==
    <<"Used ">> \o Str(DictGet(call, <<"tool">>, JNull))
    \o <<": ", IF r.success THEN "success" ELSE "failed">>

AnswerNow == <<"You now have data to answer the question. Provide your final answer as a clear sentence using the numbers above. DO NOT call another tool - just answer the question.">>
TryAgain == <<"The tool didn't return useful data. Try a different approach or tool.">>

\* the observation fed back to the model
Followup(r) ==
    <<"Tool result:">> \o to_string(r)
    \o (IF r.success /\ Truthy(r.data) THEN AnswerNow ELSE TryAgain)

VARIABLES
    pc,             \* where the call in progress stands
    iteration,      \* the loop variable of run()
    messages,       \* the conversation
    tool_calls,     \* the records of this run
    thinking,       \* the reasoning trace
    response_text,  \* the text of the last model reply
    tool_call,      \* the call extracted from it
    result,         \* the ToolResult of the last dispatch
    response,       \* what run() returned
    exception,      \* the exception that left the call in progress, "" if none
    llm_log,        \* every self.llm.chat call, with its outcome
    dispatch_log,   \* every _execute_tool call that returned, with its result
    db_log,         \* what reached the database connection layer
    arg,            \* the argument of a function applied on its own
    ret,            \* and what it returned
    _shared_db_instance,  \* the module global: 0 is None, else the instance
    _shared_db_lock,      \* 0 when free, else the thread that holds it
    constructed,          \* how many NFLDatabase objects were constructed
    callers,              \* each thread inside or between get_shared_database calls
    frames                \* the locals of each of the concurrent calls of run()

\* what outlives one call of run(): the module globals, and the callers
sharedVars == <<_shared_db_instance, _shared_db_lock, constructed, callers, frames>>

vars == <<pc, iteration, messages, tool_calls, thinking, response_text, tool_call,
          result, response, exception, llm_log, dispatch_log, db_log, arg, ret,
          sharedVars>>

NoResponse == AgentResponse(<<>>, <<>>, <<>>, 0)
NoResult == ToolResult(FALSE, JNull, JNull)

MaxThreads == 3
MaxGets == 2

Threads == 1..MaxThreads

\* two calls of run() on one agent
Invocations == {1, 2}

\* the locals of a call that has not started; sent, made and said keep what
\* the call passed to the model and what it built itself
NoFrame ==
    [pc |-> "idle", iteration |-> 0, messages |-> <<>>, tool_calls |-> <<>>, thinking |-> <<>>,
     tool_call |-> JObj(<<>>), response_text |-> <<>>, response |-> NoResponse, exception |-> "",
     sent |-> <<>>, made |-> <<>>, said |-> <<>>]

\* module load: no instance, the lock free, no thread in a call
SharedIdle ==
    /\ _shared_db_instance = 0
    /\ _shared_db_lock = 0
    /\ constructed = 0
    /\ callers = [t \in Threads |-> [pc |-> "idle", calls |-> 0, db |-> 0, ret |-> <<>>]]
    /\ frames = [r \in Invocations |-> NoFrame]

Idle ==
    /\ SharedIdle
    /\ iteration = 0
    /\ messages = <<>>
    /\ tool_calls = <<>>
    /\ thinking = <<>>
    /\ response_text = <<>>
    /\ tool_call = JObj(<<>>)
    /\ result = NoResult
    /\ response = NoResponse
    /\ exception = ""
    /\ llm_log = <<>>
    /\ dispatch_log = <<>>
    /\ db_log = <<>>

runVars == <<iteration, messages, tool_calls, thinking, response_text, tool_call,
             result, response, exception, llm_log, dispatch_log>>

(***************************************************************************)
(* What the environment supplies: questions, model replies, backends       *)
(***************************************************************************)
MaxRows == 1

Questions == {<<"Who", WS, "led", WS, "passing", WS, "yards">>}

Field(name, val) == <<name, val>>
Call(name, arguments) == JObj(<<Field(<<"tool">>, name), Field(<<"arguments">>, arguments)>>)

RankingsCall == Call(JStr(<<"rankings">>), JObj(<<Field(<<"stat">>, JStr(<<"passing_yards">>))>>))
PlayerStatsCall == Call(JStr(<<"player_stats">>), JObj(<<Field(<<"player_name">>, JStr(<<"x">>))>>))
SelectCall == Call(JStr(<<"sql_query">>), JObj(<<Field(<<"sql">>, JStr(<<"select", WS, "x">>))>>))
DropCall == Call(JStr(<<"sql_query">>), JObj(<<Field(<<"query">>, JStr(<<"DROP", WS, "x">>))>>))
DivideCall == Call(JStr(<<"calculator">>),
                   JObj(<<Field(<<"operation">>, JStr(<<"divide">>)),
                          Field(<<"values">>, JArr(<<JNum(1), JNum(0)>>))>>))
UnknownCall == JObj(<<Field(<<"tool">>, JStr(<<"nosuch">>))>>)
ListNameCall == Call(JArr(<<JStr(<<"rankings">>)>>), JObj(<<>>))
ListArgsCall == Call(JStr(<<"news_search">>), JArr(<<JNum(1)>>))

\* a reply that carries the call in a fenced json block / as raw JSON after prose
Fenced(x) == <<FENCE, "json", WS>> \o json_dumps(x) \o <<WS, FENCE>>
Raw(x) == <<"I", WS, "will", WS, "use", WS>> \o json_dumps(x)

PlainText == <<"Joe", WS, "Burrow", WS, "led", WS, "with", WS, "4918", WS, "yards">>

ToolReplies ==
    {Fenced(RankingsCall), Fenced(PlayerStatsCall), Fenced(SelectCall), Fenced(DropCall),
     Fenced(UnknownCall), Raw(DivideCall), Fenced(ListArgsCall)}

OtherReplies ==
    {PlainText, <<>>, Fenced(JArr(<<JNum(1)>>)), Fenced(ListNameCall), Fenced(JObj(<<>>)),
     json_dumps(JObj(<<Field(<<"player">>, JStr(<<"x">>))>>))}

ModelReplies == ToolReplies \cup OtherReplies

\* str(e) of what self.llm.chat raises (RuntimeError from requests, timeouts)
ChatErrors == {"Ollama chat request failed"}

\* rows a statement of the tool can return
SqlRow(val) == JObj(<<Field(<<"total">>, val)>>)
GameRow(val) == JObj(<<Field(<<"passing_yards">>, val), Field(<<"passing_tds">>, val)>>)
RankRow(player, total, games) ==
    JObj(<<Field(<<"player">>, player), Field(<<"total_", "passing_yards">>, total),
           Field(<<"games">>, games)>>)
Hit == JObj(<<Field(<<"text">>, JStr(<<"x">>))>>)

RowChoices(name) ==
    CASE name = "sql_query" -> {SqlRow(JNum(31))}
      [] name = "player_stats" -> {GameRow(JNum(300))}
      [] name = "rankings" -> {RankRow(JStr(<<"Joe", WS, "Burrow">>), JNum(4918), JNum(17))}
      [] OTHER -> {Hit}

SeqsUpTo(S, n) == UNION {[1..m -> S] : m \in 0..n}

Backends(name) ==
    {[raises |-> r, alt |-> a, rows |-> rows] :
        r \in BOOLEAN, a \in BOOLEAN, rows \in SeqsUpTo(RowChoices(name), MaxRows)}

\* the backends a call can meet: those of the tool it names
BackendsFor(call) ==
    LET tool_name == DictGet(call, <<"tool">>, JNull)
    IN Backends(IF Registered(tool_name) THEN tool_name[2][1] ELSE "")

(***************************************************************************)
(* The steps of run()                                                      *)
(***************************************************************************)
\* lines 362-372: the locals and the seeded conversation
Run ==
    /\ pc = "idle"
    /\ \E question \in Questions :
        messages' = <<Message("system", system_prompt), Message("user", question)>>
    /\ tool_calls' = <<>>
    /\ thinking' = <<>>
    /\ iteration' = 0
    /\ pc' = "chat"
    /\ UNCHANGED <<response_text, tool_call, result, response, exception,
                   llm_log, dispatch_log, db_log, arg, ret>>
    /\ UNCHANGED sharedVars

\* a loop that calls the model again after a failed call
LLMChatRetry ==
    /\ pc = "chat"
    /\ \/ \E text \in ModelReplies :
            /\ response_text' = text
            /\ llm_log' = Append(llm_log, [ok |-> TRUE, text |-> text, sent |-> messages])
            /\ pc' = "parse"
       \/ \E e \in ChatErrors :
            /\ llm_log' = Append(llm_log, [ok |-> FALSE, text |-> <<e>>, sent |-> messages])
            /\ pc' = "chat"
            /\ UNCHANGED response_text
    /\ UNCHANGED <<iteration, messages, tool_calls, thinking, tool_call, result, response,
                   exception, dispatch_log, db_log, arg, ret>>
    /\ UNCHANGED sharedVars

\* lines 383-395: self.llm.chat(messages) returns text or raises
LLMChat ==
    /\ pc = "chat"
    /\ \/ \E text \in ModelReplies :
            /\ response_text' = text
            /\ llm_log' = Append(llm_log, [ok |-> TRUE, text |-> text, sent |-> messages])
            /\ pc' = "parse"
            /\ UNCHANGED response
       \/ \E e \in ChatErrors :
            /\ response' = ErrorResponse(e, tool_calls, thinking, iteration)
            /\ llm_log' = Append(llm_log, [ok |-> FALSE, text |-> <<e>>, sent |-> messages])
            /\ pc' = "done"
            /\ UNCHANGED response_text
    /\ UNCHANGED <<iteration, messages, tool_calls, thinking, tool_call, result,
                   exception, dispatch_log, db_log, arg, ret>>
    /\ UNCHANGED sharedVars

\* lines 401-403 and 449-462: extract the call; without one the text is the answer
ParseResponse ==
    /\ pc = "parse"
    /\ LET parsed == _parse_tool_call(response_text)
       IN IF parsed.kind = "raise"
          THEN /\ exception' = parsed.exc
               /\ pc' = "raised"
               /\ UNCHANGED <<tool_call, response>>
          ELSE IF parsed.kind = "value" /\ Truthy(parsed.val)
          THEN /\ tool_call' = parsed.val
               /\ pc' = "execute"
               /\ UNCHANGED <<exception, response>>
          ELSE /\ response' = FinalResponse(response_text, tool_calls, thinking, iteration)
               /\ pc' = "done"
               /\ UNCHANGED <<exception, tool_call>>
    /\ UNCHANGED <<iteration, messages, tool_calls, thinking, response_text, result,
                   llm_log, dispatch_log, db_log, arg, ret>>
    /\ UNCHANGED sharedVars

\* line 413: result = self._execute_tool(tool_call)
ExecuteTool ==
    /\ pc = "execute"
    /\ \E backend \in BackendsFor(tool_call) :
        LET r == _execute_tool(tool_call, backend)
        IN IF r.kind = "raise"
           THEN /\ exception' = r.exc
                /\ pc' = "raised"
                /\ UNCHANGED <<result, dispatch_log, db_log>>
           ELSE /\ result' = r.val.result
                /\ dispatch_log' = Append(dispatch_log, [call |-> tool_call, result |-> r.val.result])
                /\ db_log' = db_log \o r.val.db
                /\ pc' = "record"
                /\ UNCHANGED exception
    /\ UNCHANGED <<iteration, messages, tool_calls, thinking, response_text, tool_call,
                   response, llm_log, arg, ret>>
    /\ UNCHANGED sharedVars

\* a loop that feeds back the observation without the reply it answers
RecordToolCallNoReply ==
    /\ pc = "record"
    /\ tool_calls' = Append(tool_calls, ToolCallRecord(tool_call, result))
    /\ thinking' = Append(thinking, ThinkingLine(tool_call, result))
    /\ messages' = Append(messages, Message("user", Followup(result)))
    /\ iteration' = iteration + 1
    /\ pc' = IF iteration + 1 < MAX_ITERATIONS THEN "chat" ELSE "fallback"
    /\ UNCHANGED <<response_text, tool_call, result, response, exception,
                   llm_log, dispatch_log, db_log, arg, ret>>
    /\ UNCHANGED sharedVars

\* lines 419-447: record the call, extend the conversation, next iteration
RecordToolCall ==
    /\ pc = "record"
    /\ tool_calls' = Append(tool_calls, ToolCallRecord(tool_call, result))
    /\ thinking' = Append(thinking, ThinkingLine(tool_call, result))
    /\ messages' = messages \o <<Message("assistant", response_text),
                                 Message("user", Followup(result))>>
    /\ iteration' = iteration + 1
    /\ pc' = IF iteration + 1 < MAX_ITERATIONS THEN "chat" ELSE "fallback"
    /\ UNCHANGED <<response_text, tool_call, result, response, exception,
                   llm_log, dispatch_log, db_log, arg, ret>>
    /\ UNCHANGED sharedVars

\* lines 464-479: the loop ran out; answer from the records
MaxIterationsReached ==
    /\ pc = "fallback"
    /\ LET final_answer == _build_fallback_answer(tool_calls)
       IN IF final_answer.kind = "raise"
          THEN /\ exception' = final_answer.exc
               /\ pc' = "raised"
               /\ UNCHANGED response
          ELSE /\ response' = MaxIterationsResponse(final_answer.val[2], tool_calls, thinking)
               /\ pc' = "done"
               /\ UNCHANGED exception
    /\ UNCHANGED <<iteration, messages, tool_calls, thinking, response_text, tool_call,
                   result, llm_log, dispatch_log, db_log, arg, ret>>
    /\ UNCHANGED sharedVars

Init ==
    /\ pc = "idle"
    /\ Idle
    /\ arg = <<>>
    /\ ret = PyNone

Next ==
    \/ Run
    \/ LLMChat
    \/ ParseResponse
    \/ ExecuteTool
    \/ RecordToolCall
    \/ MaxIterationsReached

Spec == Init /\ [][Next]_vars

(***************************************************************************)
(* The extractor applied on its own                                        *)
(***************************************************************************)
MaxProse == 2

ProseTokens == {"x", WS, "{", "}", FENCE}
Prose == SeqsUpTo(ProseTokens, MaxProse)

\* well-formed call objects a fenced block can hold
QuotedFenceCall ==
    Call(JStr(<<"sql_query">>), JObj(<<Field(<<"sql">>, JStr(<<"select", WS, FENCE>>))>>))
QuotedBraceCall ==
    Call(JStr(<<"semantic_search">>), JObj(<<Field(<<"query">>, JStr(<<FENCE, "}">>))>>))
BlockCalls == {RankingsCall, SelectCall, DivideCall, UnknownCall, QuotedFenceCall, QuotedBraceCall}

\* the text of a response with one fenced json block between two stretches of prose
FencedResponse(pre, call, post) == pre \o Fenced(call) \o post

\* JSON objects that are no call: an example the model echoed
PlayerExample == JObj(<<Field(<<"player">>, JStr(<<"x">>))>>)
YardsExample == JObj(<<Field(<<"player">>, JStr(<<"x">>)), Field(<<"yards">>, JNum(100))>>)
NonToolObjects == {PlayerExample, YardsExample}

\* call objects written raw: string values with and without braces
BalancedBraceCall ==
    Call(JStr(<<"semantic_search">>), JObj(<<Field(<<"query">>, JStr(<<"{", "x", "}">>))>>))
RawCalls == {RankingsCall, DivideCall, UnknownCall, QuotedFenceCall, QuotedBraceCall,
             BalancedBraceCall}

\* prose in which no brace opens
NoOpenProse == {pre \in Prose : \A i \in 1..Len(pre) : pre[i] # "{"}

\* texts without any brace that opens
PlainTokens == {"x", WS, "}", FENCE, "json", "1"}
PlainTexts == SeqsUpTo(PlainTokens, MaxProse + 1)

\* blocks that hold JSON that is no object, and blocks that hold no JSON
NonObjects == {JArr(<<>>), JArr(<<JNum(1)>>), JNum(1), JStr(<<"x">>), JNull}
BrokenBlocks == {<<"x">>, <<"{">>, <<"{", "x", "}">>, <<"[", "1">>, <<"}", "{">>}

ParseInputs ==
    {[form |-> "fenced", call |-> call, text |-> FencedResponse(pre, call, post)] :
        pre \in Prose, call \in BlockCalls, post \in Prose}
    \cup {[form |-> "nontool_fenced", call |-> obj, text |-> FencedResponse(pre, obj, post)] :
        pre \in Prose, obj \in NonToolObjects, post \in Prose}
    \cup {[form |-> "nontool_raw", call |-> obj, text |-> pre \o json_dumps(obj) \o post] :
        pre \in Prose, obj \in NonToolObjects, post \in Prose}
    \cup {[form |-> "raw", call |-> call, text |-> pre \o json_dumps(call) \o post] :
        pre \in NoOpenProse, call \in RawCalls, post \in Prose}
    \cup {[form |-> "plain", call |-> JNull, text |-> text] : text \in PlainTexts}
    \cup {[form |-> "fenced_value", call |-> v, text |-> FencedResponse(pre, v, <<>>)] :
        pre \in Prose, v \in NonObjects}
    \cup {[form |-> "broken", call |-> JNull,
           text |-> pre \o <<FENCE, "json", WS>> \o body \o <<WS, FENCE>>] :
        pre \in Prose, body \in BrokenBlocks}

InitParse ==
    /\ pc = "call"
    /\ Idle
    /\ arg \in ParseInputs
    /\ ret = PyNone

ParseOnce ==
    /\ pc = "call"
    /\ ret' = _parse_tool_call(arg.text)
    /\ pc' = "return"
    /\ UNCHANGED <<runVars, db_log, arg>>
    /\ UNCHANGED sharedVars

NextParse == ParseOnce

SpecParse == InitParse /\ [][NextParse]_vars

(***************************************************************************)
(* Dispatch applied on its own                                             *)
(***************************************************************************)
Missing == <<"missing", <<>>>>

NameChoices ==
    {JStr(<<ToolNames[i]>>) : i \in 1..Len(ToolNames)}
    \cup {JStr(<<"nosuch">>), JStr(<<>>), JNum(7), JNull, JArr(<<JStr(<<"rankings">>)>>),
          JObj(<<>>), Missing}

GoodArgs ==
    JObj(<<Field(<<"sql">>, JStr(<<"select", WS, "x">>)),
           Field(<<"stat">>, JStr(<<"passing_yards">>)),
           Field(<<"operation">>, JStr(<<"divide">>)),
           Field(<<"values">>, JArr(<<JNum(1), JNum(0)>>)),
           Field(<<"player_name">>, JStr(<<"x">>)),
           Field(<<"query">>, JStr(<<"x">>))>>)
WrongTypedArgs ==
    JObj(<<Field(<<"sql">>, JNum(1)),
           Field(<<"stat">>, JArr(<<JStr(<<"x">>)>>)),
           Field(<<"operation">>, JObj(<<>>)),
           Field(<<"values">>, JStr(<<"x">>)),
           Field(<<"opponent">>, JNum(1)),
           Field(<<"query">>, JNull)>>)
WriteArgs ==
    JObj(<<Field(<<"query">>, JStr(<<"Update", WS, "x">>)),
           Field(<<"stat">>, JStr(<<"fg_made">>)),
           Field(<<"order">>, JStr(<<"ASC">>)),
           Field(<<"operation">>, JStr(<<"expression">>)),
           Field(<<"min_games">>, JStr(<<"1", PUNCT, WS, "drop">>))>>)
UnknownKeyArgs == JObj(<<Field(<<"zzz">>, JNum(1))>>)

ArgChoices ==
    {GoodArgs, WrongTypedArgs, WriteArgs, UnknownKeyArgs, JObj(<<>>), JNull,
     JArr(<<JNum(1)>>), JStr(<<"x">>), JNum(1), Missing}

MakeCall(name, arguments) ==
    JObj((IF name[1] = "missing" THEN <<>> ELSE <<Field(<<"tool">>, name)>>)
         \o (IF arguments[1] = "missing" THEN <<>> ELSE <<Field(<<"arguments">>, arguments)>>))

DispatchInputs == {MakeCall(name, arguments) : name \in NameChoices, arguments \in ArgChoices}

InitDispatch ==
    /\ pc = "call"
    /\ Idle
    /\ arg \in DispatchInputs
    /\ ret = PyNone

DispatchOnce ==
    /\ pc = "call"
    /\ \E backend \in BackendsFor(arg) :
        LET r == _execute_tool(arg, backend)
        IN /\ ret' = r
           /\ db_log' = IF r.kind = "value" THEN r.val.db ELSE <<>>
    /\ pc' = "return"
    /\ UNCHANGED <<runVars, arg>>
    /\ UNCHANGED sharedVars

NextDispatch == DispatchOnce

SpecDispatch == InitDispatch /\ [][NextDispatch]_vars

(***************************************************************************)
(* The structured-query tool applied on its own                            *)
(***************************************************************************)
MaxQuery == 3

QueryTokens == {"select", "drop", "DROP", "Update", "x", "_", WS, PUNCT}
Queries == SeqsUpTo(QueryTokens, MaxQuery)

InitSql ==
    /\ pc = "call"
    /\ Idle
    /\ arg \in Queries
    /\ ret = PyNone

SqlOnce ==
    /\ pc = "call"
    /\ \E backend \in Backends("sql_query") :
        LET out == SQLQueryTool_execute(JStr(arg), backend)
        IN /\ ret' = Returned(out.result)
           /\ db_log' = out.db
    /\ pc' = "return"
    /\ UNCHANGED <<runVars, arg>>
    /\ UNCHANGED sharedVars

NextSql == SqlOnce

SpecSql == InitSql /\ [][NextSql]_vars

(***************************************************************************)
(* The fallback synthesizer applied on its own                             *)
(***************************************************************************)
MaxCalls == 2

Record(tool, r) ==
    ToolCallRecord(Call(JStr(<<tool>>), JObj(<<>>)), r)

\* the ToolResult shapes the tools produce
ZeroGamesSummary ==
    Success(JObj(<<
        Field(<<"summary">>, JObj(<<Field(<<"games_played">>, JNum(0)),
                                     Field(<<"total_", "passing_yards">>, JNull),
                                     Field(<<"total_", "passing_tds">>, JNull)>>)),
        Field(<<"recent_games">>, JArr(<<>>)),
        Field(<<"total_games_found">>, JNum(0))>>))
GamesSummary(yards) ==
    Success(JObj(<<
        Field(<<"summary">>, JObj(<<Field(<<"games_played">>, JNum(1)),
                                     Field(<<"total_", "passing_yards">>, JNum(yards)),
                                     Field(<<"total_", "passing_tds">>, JNum(2))>>)),
        Field(<<"recent_games">>, JArr(<<GameRow(JNum(yards))>>)),
        Field(<<"total_games_found">>, JNum(1))>>))

RecordChoices ==
    {Record("rankings", Failure(<<"Invalid stat: ">>)),
     Record("rankings", Success(JArr(<<>>))),
     Record("rankings", Success(JArr(AddRanks(
        <<RankRow(JStr(<<"Joe", WS, "Burrow">>), JNum(4918), JNum(17))>>, "rank")))),
     Record("player_stats", ZeroGamesSummary),
     Record("player_stats", GamesSummary(0)),
     Record("player_stats", GamesSummary(4183)),
     Record("player_stats", Success(JObj(<<Field(<<"summary">>, JObj(<<>>))>>))),
     Record("sql_query", Success(JArr(<<>>))),
     Record("sql_query", Success(JArr(<<SqlRow(JNull)>>))),
     Record("sql_query", Success(JArr(<<SqlRow(JNum(31))>>))),
     Record("sql_query", Failure(PermissionText)),
     Record("calculator", CalcData(JNum(4), JStr(<<"sum">>))),
     Record("news_search", Success(JArr(<<Hit>>)))}

FallbackInputs == SeqsUpTo(RecordChoices, MaxCalls)

InitFallback ==
    /\ pc = "call"
    /\ Idle
    /\ arg \in FallbackInputs
    /\ ret = PyNone

FallbackOnce ==
    /\ pc = "call"
    /\ ret' = _build_fallback_answer(arg)
    /\ pc' = "return"
    /\ UNCHANGED <<runVars, db_log, arg>>
    /\ UNCHANGED sharedVars

NextFallback == FallbackOnce

SpecFallback == InitFallback /\ [][NextFallback]_vars

(***************************************************************************)
(* get_shared_database called from several threads                         *)
(***************************************************************************)
\* thread t moves to position p
Move(t, p) == [callers EXCEPT ![t].pc = p]

\* line 249: the unlocked test at the start of a call
CheckUnlocked(t) ==
    /\ callers[t].pc = "idle"
    /\ callers[t].calls < MaxGets
    /\ callers' = [callers EXCEPT ![t].calls = @ + 1,
                                  ![t].pc = IF _shared_db_instance = 0 THEN "acquire" ELSE "return"]
    /\ UNCHANGED <<_shared_db_instance, _shared_db_lock, constructed>>

\* line 250: with _shared_db_lock, entered when the lock is free
AcquireLock(t) ==
    /\ callers[t].pc = "acquire"
    /\ _shared_db_lock = 0
    /\ _shared_db_lock' = t
    /\ callers' = Move(t, "recheck")
    /\ UNCHANGED <<_shared_db_instance, constructed>>

\* leaving out the test under the lock
ConstructUnchecked(t) ==
    /\ callers[t].pc = "recheck"
    /\ callers' = Move(t, "construct")
    /\ UNCHANGED <<_shared_db_instance, _shared_db_lock, constructed>>

\* line 252: the test repeated under the lock
CheckLocked(t) ==
    /\ callers[t].pc = "recheck"
    /\ callers' = Move(t, IF _shared_db_instance = 0 THEN "construct" ELSE "release")
    /\ UNCHANGED <<_shared_db_instance, _shared_db_lock, constructed>>

\* line 253, right-hand side: NFLDatabase(read_only=True)
Construct(t) ==
    /\ callers[t].pc = "construct"
    /\ constructed' = constructed + 1
    /\ callers' = [callers EXCEPT ![t].db = constructed + 1, ![t].pc = "assign"]
    /\ UNCHANGED <<_shared_db_instance, _shared_db_lock>>

\* line 253, the store to the global
Assign(t) ==
    /\ callers[t].pc = "assign"
    /\ _shared_db_instance' = callers[t].db
    /\ callers' = Move(t, "release")
    /\ UNCHANGED <<_shared_db_lock, constructed>>

\* the end of the with block
ReleaseLock(t) ==
    /\ callers[t].pc = "release"
    /\ _shared_db_lock' = 0
    /\ callers' = Move(t, "return")
    /\ UNCHANGED <<_shared_db_instance, constructed>>

\* line 255: return _shared_db_instance
ReturnInstance(t) ==
    /\ callers[t].pc = "return"
    /\ callers' = [callers EXCEPT ![t].ret = Append(@, _shared_db_instance), ![t].pc = "idle"]
    /\ UNCHANGED <<_shared_db_instance, _shared_db_lock, constructed>>

InitShared ==
    /\ pc = "threads"
    /\ Idle
    /\ arg = <<>>
    /\ ret = PyNone

NextShared ==
    \E t \in Threads :
        /\ \/ CheckUnlocked(t)
           \/ AcquireLock(t)
           \/ CheckLocked(t)
           \/ Construct(t)
           \/ Assign(t)
           \/ ReleaseLock(t)
           \/ ReturnInstance(t)
        /\ UNCHANGED <<pc, runVars, db_log, arg, ret, frames>>

SpecShared == InitShared /\ [][NextShared]_vars

(***************************************************************************)
(* RankingsTool.execute applied on its own, twice over the same table      *)
(***************************************************************************)
MaxGames == 3

\* one game of one player: the columns of player_games the statement reads
Game(player, team, season, yards) ==
    [player |-> player, position |-> "QB", team |-> team, season |-> season,
     season_type |-> "REG", passing_yards |-> yards, carries |-> 1]

\* P plays for teams A and B in the season, Q for A only
Games ==
    {Game("P", "A", 2024, 0), Game("P", "A", 2024, 2), Game("P", "B", 2024, 2),
     Game("Q", "A", 2024, 3), Game("Q", "A", 2023, 3)}

Tables == SeqsUpTo(Games, MaxGames)

\* the orders in which the engine can meet the rows of a table
Scans(n) == {scan \in [1..n -> 1..n] : \A i, j \in 1..n : scan[i] = scan[j] => i = j}

RankingArgs(stat, position, limit, season_type, order, min_games) ==
    [stat |-> stat, season |-> JNum(2024), position |-> position, limit |-> limit,
     season_type |-> season_type, order |-> order, min_games |-> min_games]

Orders == {Missing, JStr(<<"asc">>), JStr(<<"ASC">>), JStr(<<"best">>)}

\* limit and min_games
Cuts == {<<1, 1>>, <<2, 1>>, <<2, 2>>}

InvalidStats ==
    {JStr(<<>>), JStr(<<"yards">>), JStr(<<"Passing_Yards">>), JNull, JNum(1),
     JStr(<<"passing_yards", PUNCT, WS, "DROP", WS, "TABLE", WS, "player_games">>)}

RankingInputs ==
    {RankingArgs(JStr(<<"passing_yards">>), JNull, JNum(cut[1]), Missing, order, JNum(cut[2])) :
        order \in Orders, cut \in Cuts}

\* the other columns, filters and spellings, and the stats that are refused
OtherInputs ==
    {RankingArgs(JStr(<<"carries">>), JStr(<<"qb">>), Missing, JStr(<<"reg">>), order, Missing) :
        order \in {JStr(<<"desc">>), JStr(<<"asc">>)}}
    \cup {RankingArgs(stat, JNull, Missing, Missing, order, Missing) :
        stat \in InvalidStats, order \in {Missing, JStr(<<"asc">>)}}

\* the defaults of execute's signature stand in for what the caller leaves out
Default(x, default) == IF x = Missing THEN default ELSE x

InitRankings ==
    /\ pc = "call"
    /\ Idle
    /\ arg \in [args : RankingInputs, table : Tables]
               \cup [args : OtherInputs, table : SeqsUpTo(Games, 2)]
    /\ ret = <<>>

\* one call of execute; the engine is free in the order it meets the rows
RankOnce ==
    /\ pc \in {"call", "again"}
    /\ \E scan \in Scans(Len(arg.table)), raises \in BOOLEAN :
        LET backend == [raises |-> raises, alt |-> FALSE, rows |-> <<>>,
                        table |-> arg.table, scan |-> scan]
            out == RankingsTool_execute(
                       arg.args.stat, arg.args.season, arg.args.position,
                       Default(arg.args.limit, JNum(10)),
                       Default(arg.args.season_type, JStr(<<"REG">>)),
                       Default(arg.args.order, JStr(<<"desc">>)),
                       Default(arg.args.min_games, JNum(1)),
                       backend)
        IN /\ ret' = Append(ret, out.result)
           /\ db_log' = db_log \o out.db
    /\ pc' = IF pc = "call" THEN "again" ELSE "return"
    /\ UNCHANGED <<runVars, arg>>
    /\ UNCHANGED sharedVars

NextRankings == RankOnce

SpecRankings == InitRankings /\ [][NextRankings]_vars

(***************************************************************************)
(* CalculatorTool.execute applied on its own                               *)
(***************************************************************************)
MaxValues == 2

CalcNumbers == {JNum(0), JNum(1), JNum(-2), JFloat(0), JFloat(50), JStr(<<"0">>), JNull}

CalcValues ==
    {JArr(xs) : xs \in SeqsUpTo(CalcNumbers, MaxValues)}
    \cup {JObj(<< <<<<"old">>, old>>, <<<<"new">>, new>> >>) : old \in CalcNumbers, new \in {JNum(1), JFloat(50)}}
    \cup {JObj(<< <<<<"new">>, JNum(1)>> >>), JObj(<<>>), JNull, JNum(0), JStr(<<>>)}

CalcInputs ==
    [operation : {JStr(<<"divide">>), JStr(<<"percent_change">>), JStr(<<"sum">>)}, values : CalcValues]

InitCalc ==
    /\ pc = "call"
    /\ Idle
    /\ arg \in CalcInputs
    /\ ret = PyNone

CalcOnce ==
    /\ pc = "call"
    /\ \E alt \in BOOLEAN :
        ret' = Returned(CalculatorTool_execute(arg.operation, arg.values,
                                               [raises |-> FALSE, alt |-> alt, rows |-> <<>>]))
    /\ pc' = "return"
    /\ UNCHANGED <<runVars, arg, db_log>>
    /\ UNCHANGED sharedVars

NextCalc == CalcOnce

SpecCalc == InitCalc /\ [][NextCalc]_vars

(***************************************************************************)
(* Two calls of run() on the same agent, interleaved at the model calls    *)
(* and the dispatches                                                      *)
(***************************************************************************)
QuestionOf(r) == <<"question", WS>> \o IntToDigits(r)

ConcurrentReplies == {Fenced(SelectCall), PlainText}
ConcurrentBackends == {[raises |-> raises, alt |-> FALSE, rows |-> <<>>] : raises \in BOOLEAN}

\* tool_calls.append on a list that every call of run() shares
AppendRecordShared(fs, r, rec) ==
    [q \in Invocations |-> [fs[q] EXCEPT !.tool_calls = Append(@, rec)]]

\* tool_calls.append(...) on the list local to the call (lines 365 and 420)
AppendRecord(fs, r, rec) ==
    [fs EXCEPT ![r].tool_calls = Append(@, rec)]

\* messages.append(...) on the list local to the call (lines 369 and 430-447)
AppendMessages(fs, r, msgs) ==
    [fs EXCEPT ![r].messages = @ \o msgs]

\* lines 362-372 for call r
RunInvoked(r) ==
    /\ frames[r].pc = "idle"
    /\ LET seed == <<Message("system", system_prompt), Message("user", QuestionOf(r))>>
       IN frames' = [AppendMessages(frames, r, seed) EXCEPT ![r].said = seed, ![r].pc = "chat"]

\* lines 383-403 and 449-462 for call r: the model call and what follows it
\* up to the dispatch or the return
ChatStep(r) ==
    /\ frames[r].pc = "chat"
    /\ LET f == frames[r]
           passed == Append(f.sent, f.messages)
       IN \/ \E text \in ConcurrentReplies :
              LET parsed == _parse_tool_call(text)
              IN frames' =
                   IF parsed.kind = "raise"
                   THEN [frames EXCEPT ![r].sent = passed, ![r].response_text = text,
                                       ![r].exception = parsed.exc, ![r].pc = "raised"]
                   ELSE IF parsed.kind = "value" /\ Truthy(parsed.val)
                   THEN [frames EXCEPT ![r].sent = passed, ![r].response_text = text,
                                       ![r].tool_call = parsed.val, ![r].pc = "execute"]
                   ELSE [frames EXCEPT ![r].sent = passed, ![r].response_text = text,
                                       ![r].response = FinalResponse(text, f.tool_calls, f.thinking,
                                                                     f.iteration),
                                       ![r].pc = "done"]
          \/ \E e \in ChatErrors :
              frames' = [frames EXCEPT ![r].sent = passed,
                                       ![r].response = ErrorResponse(e, f.tool_calls, f.thinking,
                                                                     f.iteration),
                                       ![r].pc = "done"]

\* lines 413-447 and 464-479 for call r: the dispatch and what follows it up
\* to the next model call or the return
DispatchStep(r) ==
    /\ frames[r].pc = "execute"
    /\ \E backend \in ConcurrentBackends :
        LET f == frames[r]
            out == _execute_tool(f.tool_call, backend)
            rec == ToolCallRecord(f.tool_call, out.val.result)
            msgs == <<Message("assistant", f.response_text),
                      Message("user", Followup(out.val.result))>>
            appended == AppendMessages(AppendRecord(frames, r, rec), r, msgs)
            final_answer == _build_fallback_answer(appended[r].tool_calls)
            thought == Append(f.thinking, ThinkingLine(f.tool_call, out.val.result))
            kept == [appended EXCEPT ![r].thinking = thought,
                                     ![r].made = Append(@, rec),
                                     ![r].said = @ \o msgs,
                                     ![r].iteration = @ + 1]
        IN frames' =
             IF out.kind = "raise"
             THEN [frames EXCEPT ![r].exception = out.exc, ![r].pc = "raised"]
             ELSE IF f.iteration + 1 < MAX_ITERATIONS
             THEN [kept EXCEPT ![r].pc = "chat"]
             ELSE IF final_answer.kind = "raise"
             THEN [kept EXCEPT ![r].exception = final_answer.exc, ![r].pc = "raised"]
             ELSE [kept EXCEPT ![r].response =
                                  MaxIterationsResponse(final_answer.val[2],
                                                        appended[r].tool_calls, thought),
                               ![r].pc = "done"]

InitConcurrent ==
    /\ pc = "concurrent"
    /\ Idle
    /\ arg = <<>>
    /\ ret = PyNone

NextConcurrent ==
    \E r \in Invocations :
        /\ \/ RunInvoked(r)
           \/ ChatStep(r)
           \/ DispatchStep(r)
        /\ UNCHANGED <<pc, runVars, db_log, arg, ret,
                       _shared_db_instance, _shared_db_lock, constructed, callers>>

SpecConcurrent == InitConcurrent /\ [][NextConcurrent]_vars

(***************************************************************************)
(* Properties of run()                                                     *)
(***************************************************************************)
\* a call that names a registered tool and carries a mapping of arguments
ValidCall(call) ==
    /\ call[1] = "obj"
    /\ Registered(DictGet(call, <<"tool">>, JNull))
    /\ DictGet(call, <<"arguments">>, JObj(<<>>))[1] = "obj"

\* a reply from which such a call is extracted
ValidReply(text) ==
    LET parsed == _parse_tool_call(text)
    IN parsed.kind = "value" /\ ValidCall(parsed.val)

AllRepliesValid ==
    \A i \in 1..Len(llm_log) : llm_log[i].ok /\ ValidReply(llm_log[i].text)

\* C1: for a model that replies with a valid tool call on every turn, run()
\* makes exactly MAX_ITERATIONS model calls and MAX_ITERATIONS dispatches and
\* then returns, with no further model call, a response whose answer is the
\* non-empty fallback string of the recorded tool_calls and whose iterations
\* is MAX_ITERATIONS.
C1_LoopBound ==
    AllRepliesValid =>
        /\ pc # "raised"
        /\ Len(llm_log) <= MAX_ITERATIONS
        /\ Len(dispatch_log) <= MAX_ITERATIONS
        /\ pc = "fallback" =>
            /\ Len(llm_log) = MAX_ITERATIONS
            /\ Len(dispatch_log) = MAX_ITERATIONS
        /\ pc = "done" =>
            /\ Len(llm_log) = MAX_ITERATIONS
            /\ Len(dispatch_log) = MAX_ITERATIONS
            /\ response.iterations = MAX_ITERATIONS
            /\ response.answer # <<>>
            /\ _build_fallback_answer(response.tool_calls) = Returned(JStr(response.answer))

\* a reply that is plain text: no fence and no brace anywhere in it
PlainReply(text) == \A i \in 1..Len(text) : text[i] \notin {FENCE, "{", "}"}

\* C2: when the first reply of the model is plain text with no structured
\* call, run() returns after exactly one model call, with that text unchanged
\* as answer, an empty tool_calls list and iterations = 1, and dispatches no
\* tool.
C2_PlainTextFirstReply ==
    (llm_log # <<>> /\ llm_log[1].ok /\ PlainReply(llm_log[1].text)) =>
        /\ Len(llm_log) = 1
        /\ dispatch_log = <<>>
        /\ pc \in {"parse", "done"}
        /\ pc = "done" =>
            /\ response.answer = llm_log[1].text
            /\ response.tool_calls = <<>>
            /\ response.iterations = 1

C2_Witness ==
    /\ pc = "done"
    /\ Len(llm_log) = 1
    /\ llm_log[1].ok
    /\ llm_log[1].text = PlainText
    /\ response.answer = PlainText

\* C3: run() never raises: whatever the model replies or raises and whatever
\* the tools return, the call ends by returning an AgentResponse.
C3_RunNeverRaises == pc # "raised"

\* C4: every AgentResponse returned by run() has a non-empty answer string.
C4_AnswerNonEmpty == pc = "done" => response.answer # <<>>

\* the model call numbered k failed
FailedAt(k) == k \in 1..Len(llm_log) /\ ~llm_log[k].ok

\* the answer carries the text of the error
Embeds(answer, e) == \E i \in 1..Len(answer) : answer[i] = e

\* C8: when the model call of iteration k fails, run() returns at once: the
\* answer embeds the error, tool_calls holds the records of iterations 1..k-1,
\* iterations = k, and no model call or dispatch follows the failure.
C8_ModelCallFailure ==
    \A k \in 1..Len(llm_log) :
        FailedAt(k) =>
            /\ k = Len(llm_log)
            /\ Len(dispatch_log) = k - 1
            /\ pc = "done"
            /\ Embeds(response.answer, llm_log[k].text[1])
            /\ response.tool_calls = tool_calls
            /\ Len(response.tool_calls) = k - 1
            /\ response.iterations = k

C8_Witness ==
    /\ pc = "done"
    /\ FailedAt(3)
    /\ Len(response.tool_calls) = 2
    /\ response.iterations = 3

\* the record at position i answers the dispatch numbered i
RecordMatches(rec, d) ==
    /\ rec.tool = DictGet(d.call, <<"tool">>, JNull)
    /\ rec.arguments = DictGet(d.call, <<"arguments">>, JObj(<<>>))
    /\ rec.success = d.result.success
    /\ d.result.success => rec.result = d.result.data
    /\ ~d.result.success => rec.error[1] = "str" /\ rec.error = d.result.error

RecordsMatch(tcs, n) ==
    /\ Len(tcs) = n
    /\ \A i \in 1..n : RecordMatches(tcs[i], dispatch_log[i])

\* every record is in place before the next dispatch and in what is returned
C9_RecordsInv ==
    /\ pc \in {"chat", "parse", "execute", "fallback"} => RecordsMatch(tool_calls, Len(dispatch_log))
    /\ pc = "record" => RecordsMatch(tool_calls, Len(dispatch_log) - 1)
    /\ pc = "done" => RecordsMatch(response.tool_calls, Len(dispatch_log))

\* a step leaves every record there is where and as it is
C9_AppendOnly ==
    /\ Len(tool_calls') >= Len(tool_calls)
    /\ \A i \in 1..Len(tool_calls) : tool_calls'[i] = tool_calls[i]
    /\ pc = "done" => response' = response

\* C9: the tool_calls of every returned AgentResponse holds, in dispatch
\* order, exactly one record for each tool call dispatched during the run,
\* failed ones included with their error text; records are only appended,
\* never removed, reordered or changed.
C9_ToolCallTrace == []C9_RecordsInv /\ [][C9_AppendOnly]_vars

C9_Witness ==
    /\ pc = "done"
    /\ Len(response.tool_calls) = 2
    /\ ~response.tool_calls[1].success
    /\ response.tool_calls[1].error = JStr(PermissionText)
    /\ response.tool_calls[2].success

(***************************************************************************)
(* Properties of dispatch, the safety gate, the fallback and the extractor *)
(***************************************************************************)
\* C5: _execute_tool never raises: whatever the tool name (known, unknown,
\* missing, not a string) and whatever the arguments value, it returns a
\* ToolResult, and a failure carries its error text.
C5_DispatchNeverRaises ==
    pc = "return" =>
        /\ ret.kind = "value"
        /\ ret.val.result.success \in BOOLEAN
        /\ ~ret.val.result.success => ret.val.result.error[1] = "str"

\* the nine words the gate is documented to stop
GatedWords == {"insert", "update", "delete", "drop", "create", "alter",
               "truncate", "replace", "merge"}

\* the words of a text: its longest runs of word tokens
IsWord(q, i, j) ==
    /\ i <= j
    /\ \A n \in i..j : IsWordToken(q[n])
    /\ i = 1 \/ ~IsWordToken(q[i - 1])
    /\ j = Len(q) \/ ~IsWordToken(q[j + 1])

\* one of the nine is a whole word of the text, in any letter case
HasGatedWord(q) ==
    \E i \in 1..Len(q) : IsWord(q, i, i) /\ Lower(q[i]) \in GatedWords

\* C6: a query that contains one of the nine write words as a whole word, in
\* any letter case, gets success = false with the permission error, obtains no
\* connection and sends no statement; every other query proceeds to the
\* backend.
C6_SafetyGate ==
    pc = "return" =>
        IF HasGatedWord(arg)
        THEN /\ ~ret.val.success
             /\ ret.val.error = JStr(PermissionText)
             /\ db_log = <<>>
        ELSE db_log = << <<"_get_connection">>, <<"execute", arg>> >>

C6_Witness ==
    /\ pc = "return"
    /\ arg = <<"x", PUNCT, "Update">>
    /\ ~ret.val.success
    /\ db_log = <<>>

\* C7: the fallback synthesizer never raises and always returns a string,
\* whatever the recorded calls hold, null numeric fields included.
C7_FallbackNeverRaises ==
    pc = "return" => ret.kind = "value" /\ ret.val[1] = "str"

\* C10: from a response with a single fenced json block holding a well-formed
\* call object the extractor returns a call with exactly the tool name and
\* the arguments of the block, whatever prose surrounds the block.
C10_FencedBlockExtracted ==
    (pc = "return" /\ arg.form = "fenced") =>
        /\ ret.kind = "value"
        /\ ret.val[1] = "obj"
        /\ DictGet(ret.val, <<"tool">>, JNull) = DictGet(arg.call, <<"tool">>, JNull)
        /\ DictGet(ret.val, <<"arguments">>, JNull) = DictGet(arg.call, <<"arguments">>, JNull)

RECURSIVE BraceFree(_)
BraceFree(x) ==
    CASE x[1] = "str" -> \A i \in 1..Len(x[2]) : x[2][i] \notin {"{", "}"}
      [] x[1] = "arr" -> \A i \in 1..Len(x[2]) : BraceFree(x[2][i])
      [] x[1] = "obj" -> \A i \in 1..Len(x[2]) :
                            BraceFree(JStr(x[2][i][1])) /\ BraceFree(x[2][i][2])
      [] OTHER -> TRUE

HasFencedJson(text) ==
    \E i, j \in 1..Len(text) :
        text[i] = FENCE /\ i + 1 < j /\ text[i + 1] = "json" /\ text[j] = FENCE

HasBrace(text) == \E i \in 1..Len(text) : text[i] = "{"

\* C13: from a text with no fenced json block and no opening brace the
\* extractor returns nothing.
C13_NoJsonNoCall ==
    (pc = "return" /\ ~HasFencedJson(arg.text) /\ ~HasBrace(arg.text)) => ret = PyNone

C13_Witness ==
    /\ pc = "return"
    /\ arg.form = "plain"
    /\ arg.text = <<FENCE, "json", "1">>
    /\ ret = PyNone

\* a call whose tool name is a string, a number or absent and is not one of
\* the six names of the registry
UnknownName(call) ==
    LET n == DictGet(call, <<"tool">>, JNull)
    IN /\ n[1] \in {"str", "num", "null"}
       /\ ~(n[1] = "str" /\ \E t \in 1..Len(ToolNames) : n[2] = <<ToolNames[t]>>)

\* the error of a result names all six tools
ListsEveryTool(r) ==
    /\ r.error[1] = "str"
    /\ \A t \in 1..Len(ToolNames) : \E j \in 1..Len(r.error[2]) : r.error[2][j] = ToolNames[t]

C15_IterationsCount ==
    pc = "done" =>
        /\ response.iterations \in 1..MAX_ITERATIONS
        /\ response.iterations = Len(llm_log)

C15_Witness ==
    /\ pc = "done"
    /\ Len(llm_log) = 3
    /\ llm_log[3].ok
    /\ response.iterations = 3

(***************************************************************************)
(* Properties of the shared database                                       *)
(***************************************************************************)
\* at most one instance exists and every finished call returned it
C16_OneInstance ==
    /\ constructed <= 1
    /\ \A t \in Threads : \A i \in 1..Len(callers[t].ret) :
        /\ callers[t].ret[i] # 0
        /\ callers[t].ret[i] = _shared_db_instance
    /\ \A t, u \in Threads : \A i \in 1..Len(callers[t].ret) : \A j \in 1..Len(callers[u].ret) :
        callers[t].ret[i] = callers[u].ret[j]

\* once set, the global keeps its value
C16_NeverReplaced ==
    _shared_db_instance # 0 => _shared_db_instance' = _shared_db_instance

\* C16: under any interleaving of concurrent get_shared_database() calls, at
\* most one NFLDatabase is constructed, every call returns that instance, and
\* the shared instance, once set, is never replaced or reset.
C16_Singleton == []C16_OneInstance /\ [][C16_NeverReplaced]_vars

C16_Witness ==
    /\ constructed = 1
    /\ \A t \in Threads : Len(callers[t].ret) = MaxGets
    /\ \E t \in Threads : callers[t].db = 1
    /\ \E t \in Threads : callers[t].db = 0

(***************************************************************************)
(* Properties of the ranking tool                                          *)
(***************************************************************************)
\* the arguments in effect, and the table read as sets of games
ValidStat == IsStr(arg.args.stat) /\ Len(arg.args.stat[2]) = 1 /\ arg.args.stat[2][1] \in valid_stats
RankedStat == arg.args.stat[2][1]
MinGames == Default(arg.args.min_games, JNum(1))[2]
Limit == Default(arg.args.limit, JNum(10))[2]
Ascending == arg.args.order \in {JStr(<<"asc">>), JStr(<<"ASC">>)}
SeasonGames == {i \in 1..Len(arg.table) : arg.table[i].season = 2024}
GamesOfGroup(key) == {i \in SeasonGames : GroupKey(arg.table[i]) = key}
GamesOfPlayer(player) == {i \in SeasonGames : arg.table[i].player = player}

RECURSIVE TotalOver(_)
TotalOver(games) ==
    IF games = {} THEN 0
    ELSE LET i == CHOOSE i \in games : TRUE
         IN arg.table[i][RankedStat] + TotalOver(games \ {i})

QualifyingGroups ==
    {key \in {GroupKey(arg.table[i]) : i \in SeasonGames} :
        Cardinality(GamesOfGroup(key)) >= MinGames /\ TotalOver(GamesOfGroup(key)) > 0}

RowField(row, name) == DictGet(row, name, JNull)[2]
RowKey(row) ==
    <<RowField(row, <<"player">>)[1], RowField(row, <<"position">>)[1], RowField(row, <<"team">>)[1]>>
RowTotal(row) == RowField(row, <<"total_", RankedStat>>)
Ranked(k) == Len(ret) >= k /\ ret[k].success
RowsOf(k) == ret[k].data[2]

\* C17: every row the ranking tool returns is a group with games >= min_games
\* and a summed stat > 0, for descending and ascending order alike, and the
\* rows are as many as the limit allows: no group that meets both conditions
\* is left out before the truncation to limit.
C17_QualifyingGroups ==
    ValidStat =>
        \A k \in 1..Len(ret) : ret[k].success =>
            /\ \A n \in 1..Len(RowsOf(k)) :
                  /\ RowField(RowsOf(k)[n], <<"games">>) >= MinGames
                  /\ RowTotal(RowsOf(k)[n]) > 0
                  /\ RowKey(RowsOf(k)[n]) \in QualifyingGroups
                  /\ RowField(RowsOf(k)[n], <<"games">>) = Cardinality(GamesOfGroup(RowKey(RowsOf(k)[n])))
                  /\ RowTotal(RowsOf(k)[n]) = TotalOver(GamesOfGroup(RowKey(RowsOf(k)[n])))
            /\ \A n, m \in 1..Len(RowsOf(k)) : RowKey(RowsOf(k)[n]) = RowKey(RowsOf(k)[m]) => n = m
            /\ Len(RowsOf(k)) = IF Cardinality(QualifyingGroups) < Limit
                                 THEN Cardinality(QualifyingGroups) ELSE Limit

\* an ascending call over a table with a group without yards, a group below
\* min_games, and a group that qualifies and is returned
C17_Witness ==
    /\ ValidStat /\ Ascending /\ MinGames = 2 /\ Limit = 2
    /\ Ranked(1)
    /\ Len(RowsOf(1)) = 1
    /\ \E i \in SeasonGames : TotalOver(GamesOfGroup(GroupKey(arg.table[i]))) = 0
    /\ \E i \in SeasonGames : Cardinality(GamesOfGroup(GroupKey(arg.table[i]))) = 1

InOrder(rows) ==
    \A n \in 1..(Len(rows) - 1) :
        IF Ascending THEN RowTotal(rows[n]) <= RowTotal(rows[n + 1])
        ELSE RowTotal(rows[n]) >= RowTotal(rows[n + 1])

Numbered(rows) ==
    \A n \in 1..Len(rows) :
        RowField(rows[n], IF Ascending THEN <<"worst_rank">> ELSE <<"rank">>) = n

\* C18: the rows are ordered by the summed stat in the requested direction
\* (descending when the order is missing or invalid), there are at most limit
\* of them, the i-th row carries rank i, and with limit 1 and descending order
\* the single row is the player with the highest summed stat of the season.
C18_OrderedRanked ==
    ValidStat =>
        \A k \in 1..Len(ret) : ret[k].success =>
            /\ InOrder(RowsOf(k))
            /\ Len(RowsOf(k)) <= Limit
            /\ Numbered(RowsOf(k))
            /\ (Limit = 1 /\ ~Ascending /\ MinGames = 1 /\ Len(RowsOf(k)) = 1) =>
                  \A i \in SeasonGames :
                      TotalOver(GamesOfPlayer(RowField(RowsOf(k)[1], <<"player">>)[1]))
                          >= TotalOver(GamesOfPlayer(arg.table[i].player))

\* C19: two calls with the same arguments over the same table return the same
\* rows in the same order with the same rank numbers, ties included.
C19_SameOutputTwice ==
    (pc = "return" /\ Ranked(1) /\ Ranked(2)) => ret[1] = ret[2]

ContainsToken(text, t) == \E n \in 1..Len(text) : text[n] = t

\* C20: for a stat name outside the allow-list the ranking tool returns
\* success = false with an error that names every valid stat, and no query
\* reaches the backend.
C20_InvalidStat ==
    (~ValidStat /\ arg.args.stat[1] \notin {"arr", "obj"}) =>
        /\ db_log = <<>>
        /\ \A k \in 1..Len(ret) :
              /\ ~ret[k].success
              /\ ret[k].data = JNull
              /\ \A stat \in valid_stats : ContainsToken(ret[k].error[2], stat)

\* a stat that starts with an allowed name and goes on with a statement
C20_Witness ==
    /\ pc = "return"
    /\ IsStr(arg.args.stat) /\ Len(arg.args.stat[2]) > 1 /\ arg.args.stat[2][1] \in valid_stats
    /\ Len(arg.table) > 0
    /\ Len(ret) = 2 /\ ~ret[2].success

\* C21: the ranking tool groups the matching games by player: each player
\* appears in at most one returned row, and the row's total is the sum of the
\* stat over all of that player's matching games of the season.
C21_OneRowPerPlayer ==
    ValidStat =>
        \A k \in 1..Len(ret) : ret[k].success =>
            /\ \A n, m \in 1..Len(RowsOf(k)) :
                  RowField(RowsOf(k)[n], <<"player">>) = RowField(RowsOf(k)[m], <<"player">>) => n = m
            /\ \A n \in 1..Len(RowsOf(k)) :
                  RowTotal(RowsOf(k)[n]) = TotalOver(GamesOfPlayer(RowField(RowsOf(k)[n], <<"player">>)[1]))

(***************************************************************************)
(* Properties of the calculator                                            *)
(***************************************************************************)
ZeroDivisor ==
    /\ arg.operation = JStr(<<"divide">>)
    /\ arg.values[1] = "arr" /\ Len(arg.values[2]) = 2
    /\ arg.values[2][2] \in {JNum(0), JFloat(0)}

\* old is 0, 0.0, or left out (values.get("old", 0))
ZeroOld ==
    /\ arg.operation = JStr(<<"percent_change">>)
    /\ arg.values[1] = "obj"
    /\ DictGet(arg.values, <<"old">>, JNum(0)) \in {JNum(0), JFloat(0)}

\* C22: divide with a zero divisor and percent_change with old = 0 return
\* success = false with an explicit error (naming zero for divide); the call
\* does not raise and does not return a success result.
C22_DivisionByZero ==
    (pc = "return" /\ (ZeroDivisor \/ ZeroOld)) =>
        /\ ret.kind = "value"
        /\ ~ret.val.success
        /\ ret.val.data = JNull
        /\ ZeroDivisor => ret.val.error = JStr(<<"Cannot divide by zero">>)
        /\ ZeroOld => ret.val.error = JStr(<<"Cannot calculate percent change from 0">>)

\* a division by the float 0.0
C22_Witness ==
    /\ pc = "return"
    /\ ZeroDivisor
    /\ arg.values[2][2] = JFloat(0)
    /\ ~ret.val.success

(***************************************************************************)
(* More properties of the extractor                                        *)
(***************************************************************************)
\* C23: for every response text the extractor returns a call or nothing and
\* never raises, also when the fenced json block or the brace-matched text
\* does not parse or parses to a value that is no object.
C23_ExtractorNeverRaises ==
    pc = "return" =>
        /\ ret.kind # "raise"
        /\ ret.kind = "value" => ret.val[1] = "obj"

(***************************************************************************)
(* More properties of run()                                                *)
(***************************************************************************)
LastReply == llm_log[Len(llm_log)]

\* the call the extractor finds in the last reply, if the reply came and holds one
Extracted ==
    /\ llm_log # <<>>
    /\ LastReply.ok
    /\ _parse_tool_call(LastReply.text).kind = "value"
    /\ Truthy(_parse_tool_call(LastReply.text).val)

ModelCalled == llm_log' # llm_log
Dispatched == dispatch_log' # dispatch_log

\* every model call but the last has had its one dispatch, the last at most one
C24_Counts == Len(llm_log) - Len(dispatch_log) \in {0, 1}

C24_Steps ==
    /\ ModelCalled =>
          /\ ~Dispatched
          /\ Len(llm_log') = Len(llm_log) + 1
          /\ Len(llm_log) = Len(dispatch_log)
          /\ llm_log # <<>> => Extracted
    /\ Dispatched =>
          /\ Len(dispatch_log') = Len(dispatch_log) + 1
          /\ Len(llm_log) = Len(dispatch_log) + 1
          /\ Extracted
          /\ dispatch_log'[Len(dispatch_log')].call = _parse_tool_call(LastReply.text).val
    /\ (llm_log # <<>> /\ ~Extracted) => ~ModelCalled /\ ~Dispatched

\* C24: within one run model calls and dispatches alternate, starting with a
\* model call: a tool is dispatched only right after a reply from which a
\* call was extracted and at most once per reply, and after a reply without a
\* call or a failed model call there is no further model call or dispatch.
C24_Alternation == []C24_Counts /\ [][C24_Steps]_vars

\* a run of three model calls and two dispatches that ends with a failed call
C24_Witness ==
    /\ pc = "done"
    /\ Len(llm_log) = 3 /\ Len(dispatch_log) = 2
    /\ ~LastReply.ok

\* a success that found nothing: no rows, no games of the player, no news
NothingFound(r) ==
    /\ r.success
    /\ \/ ~Truthy(r.data)
       \/ r.data[1] = "obj" /\ DictGet(r.data, <<"total_games_found">>, JNull) = JNum(0)
       \/ r.data[1] = "obj" /\ Len(r.data[2]) = 1 /\ HasKey(r.data, <<"message">>)

\* the observation that followed the k-th dispatch, without the tool result
Advice(k) ==
    LET content == messages[2 + 2 * k].content
    IN SubSeq(content, Len(content), Len(content))

\* C25: the observation appended after a dispatch tells the model to answer
\* now without another tool exactly when the result is a success with data;
\* after a failure or an empty result (no rows, no matches, nothing found) it
\* invites the model to try a different approach.
C25_ObservationWording ==
    \A k \in 1..Len(tool_calls) :
        LET r == dispatch_log[k].result
        IN IF r.success /\ ~NothingFound(r)
           THEN Advice(k) = AnswerNow
           ELSE Advice(k) = TryAgain

\* [system prompt, user question] and then (assistant, user) pairs
C26_Shape ==
    pc # "idle" =>
        /\ Len(messages) >= 2 /\ Len(messages) % 2 = 0
        /\ messages[1] = Message("system", system_prompt)
        /\ messages[2].role = "user" /\ messages[2].content \in Questions
        /\ \A i \in 3..Len(messages) :
              messages[i].role = IF i % 2 = 1 THEN "assistant" ELSE "user"
        /\ \A k \in 1..((Len(messages) - 2) \div 2) :
              /\ messages[1 + 2 * k].content = llm_log[k].text
              /\ messages[2 + 2 * k].content = Followup(dispatch_log[k].result)
        /\ \A k \in 1..Len(llm_log) : Len(llm_log[k].sent) = 2 + 2 * (k - 1)

C26_AppendOnly ==
    pc # "idle" =>
        /\ Len(messages') >= Len(messages)
        /\ SubSeq(messages', 1, Len(messages)) = messages

\* C26: at every point of a run the conversation is the system prompt and
\* the question followed by (assistant reply, user observation) pairs;
\* messages are only appended, the system prompt occurs once, and the k-th
\* model call is sent exactly 2 + 2(k-1) messages.
C26_Conversation == []C26_Shape /\ [][C26_AppendOnly]_vars

\* the fourth model call, sent eight messages
C26_Witness ==
    /\ Len(llm_log) = 4
    /\ Len(llm_log[4].sent) = 8
    /\ Len(messages) = 8

(***************************************************************************)
(* More properties of the fallback synthesizer                             *)
(***************************************************************************)
FirstRow(tc) == tc.result[2][1]

\* a record from which a sentence can be built: a successful, non-empty
\* result with a leader's total, a player's passing yards, or a row's value
CanBuild(tc) ==
    /\ tc.success
    /\ Truthy(tc.result)
    /\ \/ /\ IsTool(tc, "rankings") /\ tc.result[1] = "arr" /\ FirstRow(tc)[1] = "obj"
          /\ \E n \in 1..Len(FirstRow(tc)[2]) :
                FirstRow(tc)[2][n][1][1] = "total_" /\ IsNumeric(FirstRow(tc)[2][n][2])
       \/ /\ IsTool(tc, "player_stats") /\ tc.result[1] = "obj"
          /\ DictGet(tc.result, <<"summary">>, JNull)[1] = "obj"
          /\ IsNumeric(DictGet(DictGet(tc.result, <<"summary">>, JNull),
                               <<"total_", "passing_yards">>, JNull))
          /\ DictGet(DictGet(tc.result, <<"summary">>, JNull),
                     <<"total_", "passing_yards">>, JNull)[2] > 0
       \/ /\ IsTool(tc, "sql_query") /\ tc.result[1] = "arr" /\ FirstRow(tc)[1] = "obj"
          /\ \E n \in 1..Len(FirstRow(tc)[2]) : FirstRow(tc)[2][n][2] # JNull

Earliest == CHOOSE i \in 1..Len(arg) : CanBuild(arg[i]) /\ \A j \in 1..(i - 1) : ~CanBuild(arg[j])

\* C27: the fallback synthesizer scans the records in call order and
\* returns the sentence of the earliest record from which one can be built,
\* skipping failed and empty records; with records but no sentence it
\* returns the "found data but no clear answer" message, and with no record
\* the "no relevant data" message.
C27_FallbackScanOrder ==
    pc = "return" =>
        IF arg = <<>> THEN ret = Returned(JStr(NoDataAnswer))
        ELSE IF \E i \in 1..Len(arg) : CanBuild(arg[i])
        THEN ret = FallbackFor(arg[Earliest])
        ELSE ret = Returned(JStr(NoClearAnswer))

FailureShape(r) == ~r.success => r.data = JNull /\ r.error[1] = "str"

RecordShape(tc) ==
    IF tc.success THEN tc.error = JNull
    ELSE tc.result = JNull /\ tc.error[1] = "str"

\* C28: every ToolResult with success = false that a tool or the dispatch
\* produces has no data and an error string; every ToolCallRecord has
\* result None and an error when success is false, and error None when
\* success is true.
C28_FailureShape ==
    /\ \A k \in 1..Len(dispatch_log) : FailureShape(dispatch_log[k].result)
    /\ \A k \in 1..Len(tool_calls) : RecordShape(tool_calls[k])

\* a run with a failed dispatch recorded before a successful one
C28_Witness ==
    /\ Len(tool_calls) = 2
    /\ ~tool_calls[1].success /\ tool_calls[1].error[1] = "str"
    /\ tool_calls[2].success /\ tool_calls[2].result # JNull

(***************************************************************************)
(* Properties of concurrent calls of run()                                 *)
(***************************************************************************)
IsPrefix(a, b) == Len(a) <= Len(b) /\ SubSeq(b, 1, Len(a)) = a

OwnOnly(r) ==
    LET f == frames[r]
    IN /\ f.tool_calls = f.made
       /\ f.messages = f.said
       /\ f.messages # <<>> => f.messages[2].content = QuestionOf(r)
       /\ \A k \in 1..Len(f.sent) :
             /\ IsPrefix(f.sent[k], f.said)
             /\ Len(f.sent[k]) = 2 + 2 * (k - 1)
       /\ f.iteration <= MAX_ITERATIONS
       /\ Len(f.sent) <= MAX_ITERATIONS
       /\ f.pc = "done" =>
             /\ f.response.tool_calls = f.made
             /\ f.response.iterations <= MAX_ITERATIONS

\* C29: when two calls of run() on one agent interleave their model calls
\* and dispatches in any way, the tool_calls each returns and every
\* conversation each sends to the model hold only the records and messages
\* that call produced, and each call's iterations stay within
\* MAX_ITERATIONS on its own.
C29_RunsIsolated == \A r \in Invocations : OwnOnly(r)

\* both calls under way at once, with different numbers of records
C29_Witness ==
    /\ frames[1].pc = "execute" /\ Len(frames[1].tool_calls) = 1
    /\ frames[2].pc = "chat" /\ Len(frames[2].tool_calls) = 2
    /\ Len(frames[2].sent) = 2

(***************************************************************************)
(* The text of the ranking statement                                       *)
(***************************************************************************)
\* what execute hands to the backend for the arguments a
IssuedBy(a) ==
    RankingsTool_execute(a.stat, a.season, a.position,
                         Default(a.limit, JNum(10)),
                         Default(a.season_type, JStr(<<"REG">>)),
                         Default(a.order, JStr(<<"desc">>)),
                         Default(a.min_games, JNum(1)),
                         [raises |-> FALSE, alt |-> FALSE, rows |-> <<>>]).db

\* the calls that differ from a in the season, the season type, the value of
\* a position filter, the limit and, with m, the games threshold
OtherValues(a, m) ==
    {[a EXCEPT !.season = s, !.season_type = st, !.position = p, !.limit = l, !.min_games = g] :
        s \in {JNum(2023), JNum(2024)},
        st \in {Missing, JStr(<<"reg">>), JStr(<<"POST">>)},
        p \in IF Truthy(a.position) THEN {JStr(<<"qb">>), JStr(<<"WR">>)} ELSE {JNull, JStr(<<>>)},
        l \in {Missing, JNum(1), JNum(2)},
        g \in m}

\* C30: the text of the statement the ranking tool issues depends on the
\* caller only through the allow-listed stat and the order normalised to asc
\* or desc: a call with any other season, season_type, position, limit and
\* min_games issues the same text, these values being bound parameters.
C30_TextFromStatAndOrder ==
    (pc # "call" /\ db_log # <<>>) =>
        \A v \in OtherValues(arg.args, {Missing, JNum(1), JNum(2)}) :
            IssuedBy(v) = SubSeq(db_log, 1, 2)

====
